---- MODULE Spec2Model ----
(***************************************************************************)
(* Melting-beads pattern generator: the image-to-grid pipeline             *)
(* (lib/image-processor.ts, lib/bead-palettes.ts) and the React shell that *)
(* schedules it and edits its result (App.tsx).                            *)
(*                                                                         *)
(* Colour strings are sequences of characters, so that the hex parsing of  *)
(* the code is computed and the 'transparent' sentinel is a string like    *)
(* any other cell value.  RGB values are triples of integers 0..255.       *)
(***************************************************************************)
EXTENDS Integers, Sequences, FiniteSets, TLC

VARIABLES
  \* ---- React state of BeadPatternGenerator (App.tsx 18-39) ----
  originalImage, beadPattern, beadColors, isProcessing, colorCounts,
  isEditMode, editTool, selectedColor, editedBeadColors, hasEdits,
  beadSize, maxBeads, selectedPalette, showGrid, dithering,
  removeBackground, backgroundThreshold,
  \* ---- scheduling: the debounce timer and the runs awaiting img.onload ----
  timer, inflight,
  \* ---- heap: whether the rows of editedBeadColors are the very row objects
  \* ---- of beadColors (a write to one is then a write to the other) ----
  aliased,
  \* ---- history: the last operation, the edit session's snapshot, the grid
  \* ---- the displayed bitmap was drawn from; and the user events left ----
  \* ---- newest is the number of the run scheduled last and how it has
  \* ---- settled ----
  lastOp, session, shownGrid, budget, newest,
  \* ---- harnesses for the pure functions ----
  call, fill

shellVars ==
  << originalImage, beadPattern, beadColors, isProcessing, colorCounts,
     isEditMode, editTool, selectedColor, editedBeadColors, hasEdits,
     beadSize, maxBeads, selectedPalette, showGrid, dithering,
     removeBackground, backgroundThreshold, timer, inflight, aliased,
     lastOp, session, shownGrid, budget, newest >>

vars == << shellVars, call, fill >>

-----------------------------------------------------------------------------
(* Strings *)

Transparent == <<"t","r","a","n","s","p","a","r","e","n","t">>

\* JavaScript's undefined (palette[0] of an empty palette).
Undefined == <<"u","n","d","e","f","i","n","e","d">>

HexVal(ch) ==
  CASE ch = "0" -> 0  [] ch = "1" -> 1  [] ch = "2" -> 2  [] ch = "3" -> 3
    [] ch = "4" -> 4  [] ch = "5" -> 5  [] ch = "6" -> 6  [] ch = "7" -> 7
    [] ch = "8" -> 8  [] ch = "9" -> 9  [] ch = "A" -> 10 [] ch = "B" -> 11
    [] ch = "C" -> 12 [] ch = "D" -> 13 [] ch = "E" -> 14 [] ch = "F" -> 15

\* Number.parseInt(hex.substring(k, k + 2), 16), k counted from 0.
parseInt16(hex, k) == HexVal(hex[k + 1]) * 16 + HexVal(hex[k + 2])

\* color.substring(1): the string without its first character.
substring1(color) == SubSeq(color, 2, Len(color))

\* The three channels of a "#RRGGBB" string, as the code parses them.
hexToRGB(color) ==
  LET channels(hex) ==
        << parseInt16(hex, 0), parseInt16(hex, 2), parseInt16(hex, 4) >>
  IN  channels(substring1(color))

-----------------------------------------------------------------------------
(* lib/bead-palettes.ts *)

standardPalette ==
  << <<"#","F","F","F","F","F","F">>,
     <<"#","F","5","F","5","F","5">>,
     <<"#","E","0","E","0","E","0">>,
     <<"#","A","9","A","9","A","9">>,
     <<"#","6","9","6","9","6","9">>,
     <<"#","0","0","0","0","0","0">>,
     <<"#","F","F","E","4","E","1">>,
     <<"#","F","F","C","0","C","B">>,
     <<"#","F","F","6","9","B","4">>,
     <<"#","F","F","1","4","9","3">>,
     <<"#","D","C","1","4","3","C">>,
     <<"#","F","F","0","0","0","0">>,
     <<"#","8","B","0","0","0","0">>,
     <<"#","F","F","F","0","F","5">>,
     <<"#","F","F","D","A","B","9">>,
     <<"#","F","F","E","F","D","5">>,
     <<"#","F","F","D","7","0","0">>,
     <<"#","F","F","A","5","0","0">>,
     <<"#","F","F","8","C","0","0">>,
     <<"#","F","F","4","5","0","0">>,
     <<"#","F","F","F","F","E","0">>,
     <<"#","F","F","F","A","C","D">>,
     <<"#","F","F","F","F","0","0">>,
     <<"#","F","F","D","7","0","0">>,
     <<"#","B","D","B","7","6","B">>,
     <<"#","F","0","F","F","F","0">>,
     <<"#","9","8","F","B","9","8">>,
     <<"#","9","0","E","E","9","0">>,
     <<"#","0","0","F","F","0","0">>,
     <<"#","3","2","C","D","3","2">>,
     <<"#","0","0","8","0","0","0">>,
     <<"#","0","0","6","4","0","0">>,
     <<"#","2","E","8","B","5","7">>,
     <<"#","F","0","F","F","F","F">>,
     <<"#","E","0","F","F","F","F">>,
     <<"#","A","F","E","E","E","E">>,
     <<"#","0","0","F","F","F","F">>,
     <<"#","0","0","C","E","D","1">>,
     <<"#","1","E","9","0","F","F">>,
     <<"#","0","0","0","0","F","F">>,
     <<"#","0","0","0","0","C","D">>,
     <<"#","0","0","0","0","8","B">>,
     <<"#","1","9","1","9","7","0">>,
     <<"#","E","6","E","6","F","A">>,
     <<"#","D","8","B","F","D","8">>,
     <<"#","D","D","A","0","D","D">>,
     <<"#","E","E","8","2","E","E">>,
     <<"#","D","A","7","0","D","6">>,
     <<"#","9","3","7","0","D","B">>,
     <<"#","8","A","2","B","E","2">>,
     <<"#","4","B","0","0","8","2">> >>

miniPalette ==
  << <<"#","F","F","F","F","F","F">>,
     <<"#","E","0","E","0","E","0">>,
     <<"#","A","9","A","9","A","9">>,
     <<"#","0","0","0","0","0","0">>,
     <<"#","F","F","C","0","C","B">>,
     <<"#","F","F","6","9","B","4">>,
     <<"#","F","F","0","0","0","0">>,
     <<"#","8","B","0","0","0","0">>,
     <<"#","F","F","D","A","B","9">>,
     <<"#","F","F","A","5","0","0">>,
     <<"#","F","F","F","F","0","0">>,
     <<"#","F","F","D","7","0","0">>,
     <<"#","9","8","F","B","9","8">>,
     <<"#","0","0","F","F","0","0">>,
     <<"#","0","0","8","0","0","0">>,
     <<"#","2","E","8","B","5","7">>,
     <<"#","A","F","E","E","E","E">>,
     <<"#","0","0","F","F","F","F">>,
     <<"#","1","E","9","0","F","F">>,
     <<"#","0","0","0","0","F","F">>,
     <<"#","0","0","0","0","8","B">>,
     <<"#","D","D","A","0","D","D">>,
     <<"#","E","E","8","2","E","E">>,
     <<"#","8","A","2","B","E","2">> >>

pastelPalette ==
  << <<"#","F","F","F","F","F","F">>,
     <<"#","0","0","0","0","0","0">>,
     <<"#","F","F","E","4","E","1">>,
     <<"#","F","F","C","0","C","B">>,
     <<"#","F","F","D","A","B","9">>,
     <<"#","F","F","F","A","C","D">>,
     <<"#","F","0","F","F","F","0">>,
     <<"#","9","8","F","B","9","8">>,
     <<"#","E","0","F","F","F","F">>,
     <<"#","A","F","E","E","E","E">>,
     <<"#","E","6","E","6","F","A">>,
     <<"#","D","8","B","F","D","8">> >>

beadPalettes ==
  [ standard |-> standardPalette, mini |-> miniPalette, pastel |-> pastelPalette ]

PaletteNames == DOMAIN beadPalettes

sq(x) == x * x

\* Math.pow(r - pr, 2) + Math.pow(g - pg, 2) + Math.pow(b - pb, 2): the square
\* of the Euclidean distance.  The code compares Math.sqrt of this number;
\* on integers up to 3 * 255^2 the IEEE square root is strictly increasing,
\* so comparing the squares decides every comparison of the code the same way.
distanceSq(r, g, b, pr, pg, pb) == sq(r - pr) + sq(g - pg) + sq(b - pb)

\* Number.POSITIVE_INFINITY: above every squared distance of two RGB values.
POSITIVE_INFINITY == 3 * sq(255) + 1

\* A mutant of isCloser: a tie replaces the earlier entry.
isCloserOrTie(distance, minDistance) == distance <= minDistance

\* if (distance < minDistance)
isCloser(distance, minDistance) == distance < minDistance

\* for (const color of palette) { ... }, from entry i on; distances[i] is the
\* distance computed for entry i.
RECURSIVE closestLoop(_, _, _, _, _)
closestLoop(palette, distances, i, minDistance, closestColor) ==
  IF i > Len(palette) THEN closestColor
  ELSE IF isCloser(distances[i], minDistance)
  THEN closestLoop(palette, distances, i + 1, distances[i], palette[i])
  ELSE closestLoop(palette, distances, i + 1, minDistance, closestColor)

\* let minDistance = POSITIVE_INFINITY; let closestColor = palette[0]; ...
findClosestColor(r, g, b, palette) ==
  LET distanceTo(p) == distanceSq(r, g, b, p[1], p[2], p[3])
  IN  closestLoop(palette,
                  [ i \in 1..Len(palette) |-> distanceTo(hexToRGB(palette[i])) ],
                  1, POSITIVE_INFINITY,
                  IF palette = <<>> THEN Undefined ELSE palette[1])

-----------------------------------------------------------------------------
(* lib/image-processor.ts: processImage *)

\* An image is [width, height, data, decodes]: data is the row-major sequence
\* of its pixels, each <<r, g, b>>; pixel (x, y) is data[y * width + x + 1].
\* The images modelled are opaque, so the alpha channel, which the code only
\* writes into the scratch canvas, is left out.

\* A mutant of mathRound: Math.floor.
mathFloor(num, den) == num \div den

\* Math.round(num / den) for num >= 0, den > 0: the nearest integer, a half
\* rounding up.  The code computes h * (m / w) in IEEE doubles; for native
\* sizes up to 21 that product rounds exactly as the quotient h*m/w does
\* (from 22 on a product that is an exact half can fall just below it).
mathRound(num, den) == (2 * num + den) \div (2 * den)

\* "Calculate dimensions to maintain aspect ratio"
targetSize(imgWidth, imgHeight, maxBeadsArg) ==
  IF imgWidth > imgHeight
  THEN IF imgWidth > maxBeadsArg
       THEN [ width  |-> maxBeadsArg,
              height |-> mathRound(imgHeight * maxBeadsArg, imgWidth) ]
       ELSE [ width |-> imgWidth, height |-> imgHeight ]
  ELSE IF imgHeight > maxBeadsArg
       THEN [ width  |-> mathRound(imgWidth * maxBeadsArg, imgHeight),
              height |-> maxBeadsArg ]
       ELSE [ width |-> imgWidth, height |-> imgHeight ]

\* ctx.drawImage(img, 0, 0, width, height); ctx.getImageData(...).data
\* The browser's scaling filter is outside the repository: an unscaled draw
\* copies the pixels, a scaled one is modelled as nearest-neighbour sampling.
drawImage(img, width, height) ==
  [ i \in 1..(width * height) |->
      LET x == (i - 1) % width
          y == (i - 1) \div width
          sx == (x * img.width) \div width
          sy == (y * img.height) \div height
      IN  img.data[sy * img.width + sx + 1] ]

\* const samplePoints = [...]: the eight probe points, in the code's order.
samplePoints(width, height) ==
  << [x |-> 0,              y |-> 0],
     [x |-> width - 1,      y |-> 0],
     [x |-> 0,              y |-> height - 1],
     [x |-> width - 1,      y |-> height - 1],
     [x |-> width \div 2,   y |-> 0],
     [x |-> width \div 2,   y |-> height - 1],
     [x |-> 0,              y |-> height \div 2],
     [x |-> width - 1,      y |-> height \div 2] >>

\* "Count color frequencies from sample points", from point k on.  colorFreq
\* is kept as the sequence of its values [rgb, count] in the order in which
\* the keys "r,g,b" were created, which is the order Object.values lists them.
RECURSIVE colorFreqLoop(_, _, _, _)
colorFreqLoop(k, pts, data, width) ==
  IF k = 0 THEN <<>>
  ELSE LET colorFreq == colorFreqLoop(k - 1, pts, data, width)
           rgb == data[pts[k].y * width + pts[k].x + 1]
           known == { i \in 1..Len(colorFreq) : colorFreq[i].rgb = rgb }
       IN  IF known = {}
           THEN Append(colorFreq, [rgb |-> rgb, count |-> 1])
           ELSE [ i \in 1..Len(colorFreq) |->
                    IF i \in known
                    THEN [colorFreq[i] EXCEPT !.count = @ + 1]
                    ELSE colorFreq[i] ]

\* A mutant of compareCounts: the order of two equally frequent colours is
\* not the same in every run (here, first sampled first in the first call of
\* processImage and last sampled first in a later one).
compareCountsVarying(a, b) == IF a.count # b.count THEN b.count - a.count ELSE IF call.fn = "processImage" /\ call.done THEN 1 ELSE 0

\* A mutant of compareCounts: of two equally frequent colours the one sampled
\* later sorts first.
compareCountsTiesLast(a, b) == IF a.count = b.count THEN 1 ELSE b.count - a.count

\* The comparator (a, b) => b.count - a.count.
compareCounts(a, b) == b.count - a.count

\* Array.prototype.sort with that comparator: the sort is stable, so an entry
\* goes after every earlier entry that does not compare greater than it.
RECURSIVE sortColors(_)
sortColors(entries) ==
  IF entries = <<>> THEN <<>>
  ELSE LET n == Len(entries)
           e == entries[n]
           sorted == sortColors(SubSeq(entries, 1, n - 1))
           after == { i \in 1..(n - 1) : compareCounts(sorted[i], e) > 0 }
           at == IF after = {} THEN n
                 ELSE CHOOSE i \in after : \A j \in after : i <= j
       IN  SubSeq(sorted, 1, at - 1) \o << e >> \o SubSeq(sorted, at, n - 1)

\* sortedColors[0]: the most frequent sampled colour.
backgroundSeed(data, width, height) ==
  sortColors(colorFreqLoop(8, samplePoints(width, height), data, width))[1].rgb

\* The starting queue: top and bottom edges, then left and right edges.
RECURSIVE edgeRows(_, _, _)
edgeRows(x, width, height) ==
  IF x >= width THEN <<>>
  ELSE << [x |-> x, y |-> 0], [x |-> x, y |-> height - 1] >>
       \o edgeRows(x + 1, width, height)

RECURSIVE edgeCols(_, _, _)
edgeCols(y, width, height) ==
  IF y >= height - 1 THEN <<>>
  ELSE << [x |-> 0, y |-> y], [x |-> width - 1, y |-> y] >>
       \o edgeCols(y + 1, width, height)

initialQueue(width, height) ==
  edgeRows(0, width, height) \o edgeCols(1, width, height)

\* A mutant of isSimilar: the bound is inclusive.
isSimilarOrEqual(pixel, bg, threshold) ==
  distanceSq(pixel[1], pixel[2], pixel[3], bg[1], bg[2], bg[3]) * sq(100)
    <= sq(threshold) * 3 * sq(255)

\* colorDiff < bgThreshold, where colorDiff = sqrt(d2) / (255 * sqrt(3)) and
\* bgThreshold = backgroundThreshold / 100.  For every integer threshold in
\* 0..100 and every d2 in 0..3*255^2 the IEEE comparison agrees with the exact
\* one, d2 * 100^2 < threshold^2 * 3 * 255^2.
isSimilar(pixel, bg, threshold) ==
  distanceSq(pixel[1], pixel[2], pixel[3], bg[1], bg[2], bg[3]) * sq(100)
    < sq(threshold) * 3 * sq(255)

\* "Add neighboring pixels to queue"
neighbours(x, y, width, height) ==
  (IF x > 0 THEN << [x |-> x - 1, y |-> y] >> ELSE <<>>)
  \o (IF x < width - 1 THEN << [x |-> x + 1, y |-> y] >> ELSE <<>>)
  \o (IF y > 0 THEN << [x |-> x, y |-> y - 1] >> ELSE <<>>)
  \o (IF y < height - 1 THEN << [x |-> x, y |-> y + 1] >> ELSE <<>>)

\* A mutant of floodStep: a point popped for a pixel already visited is put
\* back at the end of the queue.
floodStepRequeue(st, data, width, height, bg, threshold) ==
  LET pt == Head(st.queue)
      idx == pt.y * width + pt.x
  IN  IF idx \in st.visited
      THEN [st EXCEPT !.queue = Append(Tail(@), pt)]
      ELSE IF isSimilar(data[idx + 1], bg, threshold)
           THEN [ queue   |-> Tail(st.queue)
                                \o neighbours(pt.x, pt.y, width, height),
                  visited |-> st.visited \cup {idx},
                  transparentPixels |-> st.transparentPixels \cup {idx} ]
           ELSE [ queue   |-> Tail(st.queue),
                  visited |-> st.visited \cup {idx},
                  transparentPixels |-> st.transparentPixels ]

\* A mutant of floodStep: a pixel outside the threshold is expanded too.
floodStepLeaky(st, data, width, height, bg, threshold) ==
  LET pt == Head(st.queue)
      idx == pt.y * width + pt.x
  IN  IF idx \in st.visited
      THEN [st EXCEPT !.queue = Tail(@)]
      ELSE [ queue   |-> Tail(st.queue) \o neighbours(pt.x, pt.y, width, height),
             visited |-> st.visited \cup {idx},
             transparentPixels |->
               IF isSimilar(data[idx + 1], bg, threshold)
               THEN st.transparentPixels \cup {idx}
               ELSE st.transparentPixels ]

\* One iteration of  while (queue.length > 0) { ... }.
\* st is [queue, visited, transparentPixels]; pixel indices are idx = y*width+x.
floodStep(st, data, width, height, bg, threshold) ==
  LET pt == Head(st.queue)
      idx == pt.y * width + pt.x
  IN  IF idx \in st.visited
      THEN [st EXCEPT !.queue = Tail(@)]
      ELSE IF isSimilar(data[idx + 1], bg, threshold)
           THEN [ queue   |-> Tail(st.queue)
                                \o neighbours(pt.x, pt.y, width, height),
                  visited |-> st.visited \cup {idx},
                  transparentPixels |-> st.transparentPixels \cup {idx} ]
           ELSE [ queue   |-> Tail(st.queue),
                  visited |-> st.visited \cup {idx},
                  transparentPixels |-> st.transparentPixels ]

floodStart(width, height) ==
  [ queue |-> initialQueue(width, height), visited |-> {},
    transparentPixels |-> {} ]

RECURSIVE floodLoop(_, _, _, _, _, _)
floodLoop(st, data, width, height, bg, threshold) ==
  IF st.queue = <<>> THEN st
  ELSE floodLoop(floodStep(st, data, width, height, bg, threshold),
                 data, width, height, bg, threshold)

\* if (removeBackground) { ... }: the Transparent-Pixel Set of a run.
\* (With a zero-area buffer the code has already thrown in getImageData.)
transparentPixelsOf(data, width, height, removeBackgroundArg, threshold) ==
  IF ~removeBackgroundArg THEN {}
  ELSE floodLoop(floodStart(width, height), data, width, height,
                 backgroundSeed(data, width, height), threshold).transparentPixels

\* A mutant of isBackgroundColor: the early return yields true.
isBackgroundColorInverted(idx, removeBackgroundArg, transparentPixels) ==
  IF ~removeBackgroundArg THEN TRUE ELSE idx \in transparentPixels

\* isBackgroundColor(x, y), on the pixel index y * width + x.
isBackgroundColor(idx, removeBackgroundArg, transparentPixels) ==
  IF ~removeBackgroundArg THEN FALSE ELSE idx \in transparentPixels

\* The value a Uint8ClampedArray element takes when n/16 is stored into it:
\* clamped to 0..255 and rounded to the nearest integer, a half to the even one.
toUint8Clamp16(n) ==
  IF n <= 0 THEN 0
  ELSE IF n >= 255 * 16 THEN 255
  ELSE LET f == n \div 16
           rem == n % 16
       IN  IF rem > 8 THEN f + 1
           ELSE IF rem < 8 THEN f
           ELSE IF f % 2 = 0 THEN f ELSE f + 1

\* pixels[k] += (err * weight) / 16 on the three colour channels of pixel idx.
addError(pixels, idx, err, weight) ==
  [pixels EXCEPT ![idx + 1] =
     [@ EXCEPT ![1] = toUint8Clamp16(@ * 16 + err[1] * weight),
               ![2] = toUint8Clamp16(@ * 16 + err[2] * weight),
               ![3] = toUint8Clamp16(@ * 16 + err[3] * weight)]]

\* A mutant of distributeError: the right-hand targets are not checked
\* against the row's end, so the error of a row's last pixel goes to the first
\* pixel of the next row (and of the row after it).
distributeErrorWrapping(pixels, x, y, width, height, err) ==
  LET idx == y * width + x
      n == width * height
      p1 == IF idx + 1 < n THEN addError(pixels, idx + 1, err, 7) ELSE pixels
      p2 == IF y + 1 < height /\ x > 0
            THEN addError(p1, idx + width - 1, err, 3) ELSE p1
      p3 == IF y + 1 < height THEN addError(p2, idx + width, err, 5) ELSE p2
      p4 == IF idx + width + 1 < n
            THEN addError(p3, idx + width + 1, err, 1) ELSE p3
  IN  p4

\* "Distribute the error to neighboring pixels"
distributeError(pixels, x, y, width, height, err) ==
  LET idx == y * width + x
      p1 == IF x + 1 < width THEN addError(pixels, idx + 1, err, 7) ELSE pixels
      p2 == IF y + 1 < height /\ x > 0
            THEN addError(p1, idx + width - 1, err, 3) ELSE p1
      p3 == IF y + 1 < height THEN addError(p2, idx + width, err, 5) ELSE p2
      p4 == IF y + 1 < height /\ x + 1 < width
            THEN addError(p3, idx + width + 1, err, 1) ELSE p3
  IN  p4

\* One iteration of the dithering loops, on the pixel with index st.i.  st is
\* [i, pixels, cells, ok]: pixels is the working copy (Uint8ClampedArray),
\* cells the cells written so far in row-major order; ok becomes FALSE when
\* closestColor.substring throws.
ditherStep(st, width, height, palette, removeBackgroundArg, transparentPixels) ==
  IF isBackgroundColor(st.i, removeBackgroundArg, transparentPixels)
  THEN [st EXCEPT !.i = @ + 1, !.cells = Append(@, Transparent)]
  ELSE LET spread(old, closestColor, c) ==
             [ i |-> st.i + 1,
               pixels |-> distributeError(st.pixels, st.i % width,
                            st.i \div width, width, height,
                            << old[1] - c[1], old[2] - c[2], old[3] - c[3] >>),
               cells |-> Append(st.cells, closestColor),
               ok |-> TRUE ]
           map(old, closestColor) ==
             IF closestColor = Undefined THEN [st EXCEPT !.ok = FALSE]
             ELSE spread(old, closestColor, hexToRGB(closestColor))
           visit(old) ==
             map(old, findClosestColor(old[1], old[2], old[3], palette))
       IN  visit(st.pixels[st.i + 1])

\* The dithering loops, from pixel index i on.  The result is [ok, cells].
RECURSIVE ditherLoop(_, _, _, _, _, _, _, _)
ditherLoop(i, pixels, cells, width, height, palette, removeBackgroundArg, transparentPixels) ==
  IF i >= width * height THEN [ok |-> TRUE, cells |-> cells]
  ELSE LET st == ditherStep([ i |-> i, pixels |-> pixels, cells |-> cells,
                              ok |-> TRUE ], width, height, palette,
                            removeBackgroundArg, transparentPixels)
       IN  IF ~st.ok THEN [ok |-> FALSE, cells |-> cells]
           ELSE ditherLoop(st.i, st.pixels, st.cells, width, height, palette,
                           removeBackgroundArg, transparentPixels)

\* A mutant of standardLoop: the colour is looked up for the pixel to the left
\* (an off-by-one in the index).
RECURSIVE standardLoopShifted(_, _, _, _, _, _, _, _)
standardLoopShifted(i, data, cells, width, height, palette, removeBackgroundArg, transparentPixels) ==
  IF i >= width * height THEN [ok |-> TRUE, cells |-> cells]
  ELSE IF isBackgroundColor(i, removeBackgroundArg, transparentPixels)
  THEN standardLoopShifted(i + 1, data, Append(cells, Transparent), width,
                    height, palette, removeBackgroundArg, transparentPixels)
  ELSE LET map(closestColor) ==
             IF closestColor = Undefined THEN [ok |-> FALSE, cells |-> cells]
             ELSE standardLoopShifted(i + 1,
                    [data EXCEPT ![i + 1] = hexToRGB(closestColor)],
                    Append(cells, closestColor), width, height, palette,
                    removeBackgroundArg, transparentPixels)
           visit(old) ==
             map(findClosestColor(old[1], old[2], old[3], palette))
       IN  visit(data[IF i > 0 THEN i ELSE 1])

\* "Standard color mapping without dithering", from pixel index i on.  The
\* code overwrites data[index..index+2] with the bead colour after reading it.
RECURSIVE standardLoop(_, _, _, _, _, _, _, _)
standardLoop(i, data, cells, width, height, palette, removeBackgroundArg, transparentPixels) ==
  IF i >= width * height THEN [ok |-> TRUE, cells |-> cells]
  ELSE IF isBackgroundColor(i, removeBackgroundArg, transparentPixels)
  THEN standardLoop(i + 1, data, Append(cells, Transparent), width, height,
                    palette, removeBackgroundArg, transparentPixels)
  ELSE LET map(closestColor) ==
             IF closestColor = Undefined THEN [ok |-> FALSE, cells |-> cells]
             ELSE standardLoop(i + 1,
                    [data EXCEPT ![i + 1] = hexToRGB(closestColor)],
                    Append(cells, closestColor), width, height, palette,
                    removeBackgroundArg, transparentPixels)
           visit(old) ==
             map(findClosestColor(old[1], old[2], old[3], palette))
       IN  visit(data[i + 1])

\* colorGrid[y][x]: the rows of a row-major sequence of cells.
toGrid(cells, width, height) ==
  [ y \in 1..height |-> SubSeq(cells, (y - 1) * width + 1, y * width) ]

-----------------------------------------------------------------------------
(* The pattern bitmap *)

\* A canvas is [width, height, px]: pixel (x, y) is px[y + 1][x + 1], a record
\* [fill, strokes]: the colour last filled there (Transparent when none) and
\* the number of grid-line strokes drawn over it since.

blankCanvas(width, height) ==
  [ width |-> width, height |-> height,
    px |-> [ y \in 1..height |->
               [ x \in 1..width |-> [fill |-> Transparent, strokes |-> 0] ] ] ]

\* The row with the pixels x, lo <= x <= hi, that lie on it taken from painted.
overSpan(row, lo, hi, painted) ==
  LET a == IF lo < 0 THEN 0 ELSE lo
      b == IF hi > Len(row) - 1 THEN Len(row) - 1 ELSE hi
  IN  IF a > b THEN row
      ELSE SubSeq(row, 1, a)
             \o [ k \in 1..(b - a + 1) |-> painted[a + k] ]
             \o SubSeq(row, b + 2, Len(row))

\* fillRect(x0, y0, size, size) with fillStyle = color.
fillRect(canvas, x0, y0, size, color) ==
  LET paint == [ k \in 1..canvas.width |-> [fill |-> color, strokes |-> 0] ]
  IN  [canvas EXCEPT !.px =
         [ y \in 1..canvas.height |->
             IF y - 1 < y0 \/ y - 1 >= y0 + size THEN @[y]
             ELSE overSpan(@[y], x0, x0 + size - 1, paint) ]]

\* strokeRect(x0, y0, size, size) with lineWidth 0.5: the outline lies within
\* a quarter pixel of the rectangle's edges, so it touches the pixels of the
\* rectangle's outermost ring and the ring of pixels just outside it.
strokeRect(canvas, x0, y0, size) ==
  LET line(row) == [ k \in 1..Len(row) |-> [row[k] EXCEPT !.strokes = @ + 1] ]
      stroke(row, lo, hi) == overSpan(row, lo, hi, line(row))
  IN  [canvas EXCEPT !.px =
         [ y \in 1..canvas.height |->
             IF y - 1 < y0 - 1 \/ y - 1 > y0 + size THEN @[y]
             ELSE IF y - 1 <= y0 \/ y - 1 >= y0 + size - 1
             THEN stroke(@[y], x0 - 1, x0 + size)
             ELSE stroke(stroke(@[y], x0 - 1, x0),
                         x0 + size - 1, x0 + size) ]]

\* The elements of a sequence that differ from their predecessor, by position.
runStarts(q) ==
  [ i \in { j \in 1..Len(q) : j = 1 \/ q[j] # q[j - 1] } |-> q[i] ]

\* The sequence of length n with the given run starts.
expandRuns(starts, n) ==
  [ i \in 1..n |->
      starts[CHOOSE j \in DOMAIN starts :
               /\ j <= i
               /\ \A k \in DOMAIN starts : k <= i => k <= j] ]

\* canvas.toDataURL("image/png"): a lossless coding of the canvas.  It is
\* modelled as the canvas size and the run starts of the sequence of rows,
\* each row coded by the run starts of its pixels.
toDataURL(canvas) ==
  [ width |-> canvas.width, height |-> canvas.height,
    rows |-> runStarts([ y \in 1..canvas.height |->
                           runStarts(canvas.px[y]) ]) ]

\* The canvas a data URL decodes to (what an <img> of it displays).
decodeDataURL(url) ==
  [ width |-> url.width, height |-> url.height,
    px |-> LET rows == expandRuns(url.rows, url.height)
           IN  [ y \in 1..url.height |-> expandRuns(rows[y], url.width) ] ]

\* "Draw each bead as a colored square", from cell index i (row-major) on.
RECURSIVE drawBeads(_, _, _, _, _)
drawBeads(i, canvas, grid, size, showGridArg) ==
  LET height == Len(grid)
      width == Len(grid[1])
      outline(filled, x, y) ==
        IF showGridArg THEN strokeRect(filled, x * size, y * size, size)
        ELSE filled
      bead(x, y, color) ==
        IF color = Transparent
        THEN drawBeads(i + 1, canvas, grid, size, showGridArg)
        ELSE drawBeads(i + 1,
               outline(fillRect(canvas, x * size, y * size, size, color), x, y),
               grid, size, showGridArg)
  IN  IF i >= width * height THEN canvas
      ELSE bead(i % width, i \div width,
                grid[(i \div width) + 1][(i % width) + 1])

\* A mutant of renderPattern: the canvas is sized by the width on both axes.
renderPatternSquare(grid, size, showGridArg) ==
  toDataURL(drawBeads(0, blankCanvas(Len(grid[1]) * size, Len(grid[1]) * size),
                      grid, size, showGridArg))

\* The pattern canvas of processImage and of generateEditedPattern: sized
\* width*beadSize x height*beadSize, cleared, drawn bead by bead, and
\* converted to a data URL.
renderPattern(grid, size, showGridArg) ==
  toDataURL(drawBeads(0, blankCanvas(Len(grid[1]) * size, Len(grid) * size),
                      grid, size, showGridArg))

\* processImage: what the promise settles with.  [ok |-> FALSE] is a
\* rejection; a resolved run carries patternDataUrl and colorGrid.
processImage(img, beadSizeArg, maxBeadsArg, palette, showGridArg, ditheringArg, removeBackgroundArg, backgroundThresholdArg) ==
  LET resolve(colorGrid) ==
        [ ok |-> TRUE,
          patternDataUrl |-> renderPattern(colorGrid, beadSizeArg, showGridArg),
          colorGrid |-> colorGrid ]
      settle(q, width, height) ==
        IF ~q.ok THEN [ok |-> FALSE, error |-> "TypeError"]
        ELSE resolve(toGrid(q.cells, width, height))
      quantize(data, width, height, tp) ==
        settle(IF ditheringArg
               THEN ditherLoop(0, data, <<>>, width, height, palette,
                               removeBackgroundArg, tp)
               ELSE standardLoop(0, data, <<>>, width, height, palette,
                                 removeBackgroundArg, tp),
               width, height)
      segment(data, width, height) ==
        quantize(data, width, height,
                 transparentPixelsOf(data, width, height, removeBackgroundArg,
                                     backgroundThresholdArg))
      sized(width, height) ==
        IF width = 0 \/ height = 0
        THEN [ok |-> FALSE, error |-> "IndexSizeError"]  \* getImageData throws
        ELSE segment(drawImage(img, width, height), width, height)
      scale(size) == sized(size.width, size.height)
  IN  IF ~img.decodes THEN [ok |-> FALSE, error |-> "Failed to load image"]
      ELSE scale(targetSize(img.width, img.height, maxBeadsArg))

-----------------------------------------------------------------------------
(* Values used as inputs *)

White == << 255, 255, 255 >>
Grey == << 204, 204, 204 >>
Red == << 255, 0, 0 >>
Blue == << 0, 0, 255 >>

HexBlack == <<"#","0","0","0","0","0","0">>
HexNearBlack == <<"#","0","0","0","0","0","2">>
HexRed == <<"#","F","F","0","0","0","0">>
HexBlue == <<"#","0","0","0","0","F","F">>

\* The palette of the specification's 2x1 example.
ExamplePalette == << HexRed, HexBlue >>

\* All sequences over S of length 0..n.
RECURSIVE SeqsUpTo(_, _)
SeqsUpTo(S, n) ==
  IF n = 0 THEN { <<>> }
  ELSE LET shorter == SeqsUpTo(S, n - 1)
       IN  shorter \cup { Append(q, e) : q \in shorter, e \in S }

\* The shell before an image is uploaded: the useState initial values.
NoImage == [ decodes |-> FALSE, width |-> 0, height |-> 0, data |-> <<>> ]
NoPattern == [ width |-> 0, height |-> 0, rows |-> << >> ]
NoCall == [ fn |-> "none" ]
NoFill == [ pc |-> "none" ]

-----------------------------------------------------------------------------
(* findClosestColor applied to bounded inputs *)

MaxPaletteLen == 2

QueryChannels == { 0, 1, 2, 128, 215, 255 }

PoolColors == { HexBlack, HexNearBlack, HexRed, HexBlue }

ClosestPalettes ==
  SeqsUpTo(PoolColors, MaxPaletteLen)
    \cup { standardPalette, miniPalette, pastelPalette }

CallClosest ==
  /\ call.fn = "findClosestColor"
  /\ ~call.done
  /\ call' = [call EXCEPT !.done = TRUE,
                          !.ret = findClosestColor(call.r, call.g, call.b,
                                                   call.palette)]
  /\ UNCHANGED << shellVars, fill >>

-----------------------------------------------------------------------------
(* The dimension calculation applied to bounded inputs *)

MaxNative == 20
MaxCells == 10

\* Native sizes beyond MaxNative with an extreme aspect ratio.
ExtremeSizes == { << 100, 1 >>, << 1, 100 >> }

CallTargetSize ==
  /\ call.fn = "targetSize"
  /\ ~call.done
  /\ call' = [call EXCEPT !.done = TRUE,
                          !.ret = targetSize(call.w, call.h, call.m)]
  /\ UNCHANGED << shellVars, fill >>

-----------------------------------------------------------------------------
(* App.tsx: BeadPatternGenerator *)

DefaultBeadSize == 10
DefaultMaxBeads == 29
DefaultThreshold == 30
SliderMinBeads == 10
SliderMinBeadSize == 5

\* The values the sliders are moved to.
MaxBeadsChoices == { DefaultMaxBeads, SliderMinBeads }
BeadSizeChoices == { DefaultBeadSize, SliderMinBeadSize }
ThresholdChoices == { DefaultThreshold, 20 }

\* Budgets of user events in one behaviour: uploads and changes of a setting;
\* gestures of the edit workflow (Edit, tool buttons, swatches, pointer
\* positions on the canvas, Apply, Cancel).
MaxChanges == 2
MaxGestures == 3
\* Pointer targets range over -1..MaxTarget on both axes.
MaxTarget == 1
\* Palette swatches clicked: the first MaxSwatch entries of the palette.
MaxSwatch == 1

ImgExample ==
  [ decodes |-> TRUE, width |-> 2, height |-> 1, data |-> << Red, Blue >> ]

ImgWide ==
  [ decodes |-> TRUE, width |-> 11, height |-> 1,
    data |-> << Red, Red, Blue, Blue, White, White, Red, Red, Blue, Blue, White >> ]

\* A damaged one-pixel image file, which fails to decode (img.onerror), and
\* an image of no area.
ImgBroken ==
  [ decodes |-> FALSE, width |-> 1, height |-> 1, data |-> << White >> ]
ImgEmpty == [ decodes |-> TRUE, width |-> 0, height |-> 0, data |-> << >> ]

ShellImages == { ImgExample, ImgWide, ImgBroken, ImgEmpty }

EmptyCounts == [ c \in {} |-> 0 ]

NoSession ==
  [ open |-> FALSE, clean |-> FALSE, grid |-> <<>>, pattern |-> NoPattern,
    counts |-> EmptyCounts, buffer |-> <<>> ]

\* JSON.parse(JSON.stringify(grid)): a fresh array of fresh rows of the same
\* strings.
jsonClone(grid) ==
  [ y \in 1..Len(grid) |-> [ x \in 1..Len(grid[y]) |-> grid[y][x] ] ]

\* A mutant of jsonCloneSharesRows: a shallow copy, [...grid], holds the row
\* objects of grid.
spreadSharesRows == TRUE

\* Whether the rows of JSON.parse(JSON.stringify(grid)) are row objects of
\* grid: the parse builds every array anew.
jsonCloneSharesRows == FALSE

RECURSIVE flatten(_)
flatten(grid) ==
  IF grid = <<>> THEN <<>> ELSE Head(grid) \o flatten(Tail(grid))

\* A mutant of countStep: the transparent sentinel is counted like a colour.
countStepAll(counts, color) ==
  IF color \in DOMAIN counts
  THEN [counts EXCEPT ![color] = @ + 1]
  ELSE [ c \in DOMAIN counts \cup {color} |->
           IF c = color THEN 1 ELSE counts[c] ]

\* if (color !== "transparent") counts[color] = (counts[color] || 0) + 1
countStep(counts, color) ==
  IF color = Transparent THEN counts
  ELSE IF color \in DOMAIN counts
  THEN [counts EXCEPT ![color] = @ + 1]
  ELSE [ c \in DOMAIN counts \cup {color} |->
           IF c = color THEN 1 ELSE counts[c] ]

RECURSIVE countLoop(_, _, _)
countLoop(cells, i, counts) ==
  IF i > Len(cells) THEN counts
  ELSE countLoop(cells, i + 1, countStep(counts, cells[i]))

\* "Count colors": const counts = {}; for (const row of grid) for (const color of row)
countColors(grid) == countLoop(flatten(grid), 1, EmptyCounts)

\* The arguments the timer callback's closure passes to processImage.
currentRun ==
  [ img |-> originalImage, beadSize |-> beadSize, maxBeads |-> maxBeads,
    palette |-> selectedPalette, showGrid |-> showGrid,
    dithering |-> dithering, removeBackground |-> removeBackground,
    backgroundThreshold |-> backgroundThreshold, seq |-> newest.seq ]

\* What the awaited promise settles with.  context is whether
\* canvas.getContext("2d") gives the run a context; without one img.onload
\* rejects before it computes anything.
runResult(run, context) ==
  IF run.img.decodes /\ ~context
  THEN [ok |-> FALSE, error |-> "Could not get canvas context"]
  ELSE processImage(run.img, run.beadSize, run.maxBeads,
                    beadPalettes[run.palette], run.showGrid, run.dithering,
                    run.removeBackground, run.backgroundThreshold)

\* The canvas element exists only in this branch of the render.
canvasMounted ==
  /\ ~isProcessing
  /\ originalImage # NoImage
  /\ beadPattern # NoPattern
  /\ isEditMode

\* The processing effect, run after a render in which one of its dependencies
\* changed: clearTimeout, setIsProcessing(true), setTimeout(..., 300).
processingEffect(img) ==
  IF img = NoImage
  THEN UNCHANGED << timer, isProcessing, newest >>
  ELSE /\ timer' = TRUE
       /\ isProcessing' = TRUE
       /\ newest' = [seq |-> newest.seq + 1, outcome |-> "pending"]

editState ==
  << beadPattern, beadColors, colorCounts, isEditMode, editTool,
     selectedColor, editedBeadColors, hasEdits, aliased, session,
     shownGrid >>

settingVars ==
  << beadSize, maxBeads, selectedPalette, showGrid, dithering,
     removeBackground, backgroundThreshold >>

\* What every user event that changes a dependency of the effect shares.
changed(name) ==
  /\ budget.changes > 0
  /\ budget' = [budget EXCEPT !.changes = @ - 1]
  /\ lastOp' = [op |-> name]
  /\ UNCHANGED << editState, inflight, call, fill >>

\* What every gesture of the edit workflow shares.
gesture ==
  /\ budget.gestures > 0
  /\ budget' = [budget EXCEPT !.gestures = @ - 1]

\* handleFileUpload -> reader.onload -> setOriginalImage(result)
Upload(img) ==
  /\ img # originalImage
  /\ originalImage' = img
  /\ processingEffect(img)
  /\ changed("upload")
  /\ UNCHANGED settingVars

SetMaxBeads(v) ==
  /\ v # maxBeads
  /\ maxBeads' = v
  /\ processingEffect(originalImage)
  /\ changed("setMaxBeads")
  /\ UNCHANGED << originalImage, beadSize, selectedPalette, showGrid,
                  dithering, removeBackground, backgroundThreshold >>

SetBeadSize(v) ==
  /\ v # beadSize
  /\ beadSize' = v
  /\ processingEffect(originalImage)
  /\ changed("setBeadSize")
  /\ UNCHANGED << originalImage, maxBeads, selectedPalette, showGrid,
                  dithering, removeBackground, backgroundThreshold >>

SetSelectedPalette(name) ==
  /\ name # selectedPalette
  /\ selectedPalette' = name
  /\ processingEffect(originalImage)
  /\ changed("setSelectedPalette")
  /\ UNCHANGED << originalImage, beadSize, maxBeads, showGrid,
                  dithering, removeBackground, backgroundThreshold >>

SetShowGrid ==
  /\ showGrid' = ~showGrid
  /\ processingEffect(originalImage)
  /\ changed("setShowGrid")
  /\ UNCHANGED << originalImage, beadSize, maxBeads, selectedPalette,
                  dithering, removeBackground, backgroundThreshold >>

SetDithering ==
  /\ dithering' = ~dithering
  /\ processingEffect(originalImage)
  /\ changed("setDithering")
  /\ UNCHANGED << originalImage, beadSize, maxBeads, selectedPalette,
                  showGrid, removeBackground, backgroundThreshold >>

SetRemoveBackground ==
  /\ removeBackground' = ~removeBackground
  /\ processingEffect(originalImage)
  /\ changed("setRemoveBackground")
  /\ UNCHANGED << originalImage, beadSize, maxBeads, selectedPalette,
                  showGrid, dithering, backgroundThreshold >>

\* The sensitivity slider is rendered only while removeBackground is on.
SetBackgroundThreshold(v) ==
  /\ removeBackground
  /\ v # backgroundThreshold
  /\ backgroundThreshold' = v
  /\ processingEffect(originalImage)
  /\ changed("setBackgroundThreshold")
  /\ UNCHANGED << originalImage, beadSize, maxBeads, selectedPalette,
                  showGrid, dithering, removeBackground >>

\* The debounce timer fires: the async callback calls processImage, which
\* creates an Image and returns a promise settled from img.onload/onerror.
TimerFires ==
  /\ timer
  /\ timer' = FALSE
  /\ inflight' = Append(inflight, currentRun)
  /\ lastOp' = [op |-> "timerFires"]
  /\ UNCHANGED << originalImage, settingVars, isProcessing, editState,
                  budget, newest, call, fill >>

\* A mutant of processingAfter: setIsProcessing(false) is the last statement
\* of the try block, which a rejection skips.
processingAfterTry(ok) == ~ok

\* finally { setIsProcessing(false) }: isProcessing after the callback,
\* whether the promise resolved (ok) or rejected.
processingAfter(ok) == FALSE

\* img.onload / img.onerror of the i-th run still awaiting its image, and the
\* continuation of the timer callback after the await (try / catch / finally).
RunCompletes(i) ==
  /\ i \in 1..Len(inflight)
  /\ \E context \in BOOLEAN : \E result \in { runResult(inflight[i], context) } :
       /\ inflight' = SubSeq(inflight, 1, i - 1)
                        \o SubSeq(inflight, i + 1, Len(inflight))
       /\ IF result.ok
          THEN /\ beadPattern' = result.patternDataUrl
               /\ beadColors' = result.colorGrid
               /\ editedBeadColors' = jsonClone(result.colorGrid)
               /\ aliased' = jsonCloneSharesRows
               /\ hasEdits' = FALSE
               /\ colorCounts' = countColors(result.colorGrid)
               /\ shownGrid' = result.colorGrid
          ELSE UNCHANGED << beadPattern, beadColors, editedBeadColors,
                            aliased, hasEdits, colorCounts, shownGrid >>
       /\ isProcessing' = processingAfter(result.ok)
       /\ lastOp' = [op |-> "runCompletes", ok |-> result.ok,
                     run |-> inflight[i],
                     latest |-> (inflight[i].seq = newest.seq),
                     settled |-> IF result.ok THEN [ok |-> TRUE]
                                 ELSE result]
       /\ session' = [session EXCEPT !.clean = FALSE]
       /\ newest' = IF inflight[i].seq # newest.seq THEN newest
                    ELSE [newest EXCEPT !.outcome = IF result.ok
                                                    THEN "resolved"
                                                    ELSE "rejected"]
  /\ UNCHANGED << originalImage, settingVars, timer, isEditMode, editTool,
                  selectedColor, budget, call, fill >>

\* The Edit button: onClick={() => setIsEditMode(true)},
\* rendered when beadPattern && !isEditMode, disabled while isProcessing.
EnterEdit ==
  /\ beadPattern # NoPattern
  /\ ~isEditMode
  /\ ~isProcessing
  /\ gesture
  /\ isEditMode' = TRUE
  /\ session' = [ open |-> TRUE, clean |-> TRUE, grid |-> beadColors,
                  pattern |-> beadPattern, counts |-> colorCounts,
                  buffer |-> editedBeadColors ]
  /\ lastOp' = [op |-> "enterEdit"]
  /\ UNCHANGED << originalImage, settingVars, timer, inflight, newest,
                  isProcessing,
                  beadPattern, beadColors, colorCounts, editTool,
                  selectedColor, editedBeadColors, hasEdits, aliased,
                  shownGrid, call, fill >>

\* The three tool buttons of the editing toolbar (isEditMode && beadPattern).
SelectTool(tool) ==
  /\ isEditMode
  /\ beadPattern # NoPattern
  /\ tool # editTool
  /\ gesture
  /\ editTool' = tool
  /\ lastOp' = [op |-> "selectTool"]
  /\ UNCHANGED << originalImage, settingVars, timer, inflight, newest,
                  isProcessing,
                  beadPattern, beadColors, colorCounts, isEditMode,
                  selectedColor, editedBeadColors, hasEdits, aliased,
                  session, shownGrid, call, fill >>

\* The swatches rendered: beadPalettes[selectedPalette].map(...) (of which the
\* first MaxSwatch are clicked) and Object.keys(colorCounts).
swatches ==
  { beadPalettes[selectedPalette][k] :
      k \in 1..(IF MaxSwatch < Len(beadPalettes[selectedPalette])
                THEN MaxSwatch ELSE Len(beadPalettes[selectedPalette])) }
    \cup DOMAIN colorCounts

\* A swatch of "All palette colors" or of "Used in pattern":
\* setSelectedColor(color); setEditTool('add').
SelectColor(color) ==
  /\ isEditMode
  /\ beadPattern # NoPattern
  /\ color \in swatches
  /\ selectedColor # color \/ editTool # "add"
  /\ gesture
  /\ selectedColor' = color
  /\ editTool' = "add"
  /\ lastOp' = [op |-> "selectColor"]
  /\ UNCHANGED << originalImage, settingVars, timer, inflight, newest,
                  isProcessing,
                  beadPattern, beadColors, colorCounts, isEditMode,
                  editedBeadColors, hasEdits, aliased, session, shownGrid,
                  call, fill >>

\* A mutant of notEditing: the edit-mode half of the guard is missing.
notEditingBufferOnly == editedBeadColors = <<>>

\* if (!editedBeadColors.length || !isEditMode) return
notEditing == editedBeadColors = <<>> \/ ~isEditMode

\* A mutant of handlePatternEdit: the write covers the whole row of the
\* target.
handlePatternEditWholeRow(x, y) ==
  LET same == [ editedBeadColors |-> editedBeadColors,
                selectedColor |-> selectedColor,
                editTool |-> editTool, hasEdits |-> hasEdits ]
  IN  IF notEditing THEN same
      ELSE IF \/ x < 0 \/ x >= Len(editedBeadColors[1])
              \/ y < 0 \/ y >= Len(editedBeadColors) THEN same
      ELSE [ same EXCEPT
               !.editedBeadColors[y + 1] =
                  [ k \in 1..Len(@) |->
                      IF editTool = "erase" THEN Transparent
                      ELSE selectedColor ],
               !.hasEdits = TRUE ]

\* handlePatternEdit(x, y) on the state of the current render.  The result
\* is the new [editedBeadColors, selectedColor, editTool, hasEdits].
handlePatternEdit(x, y) ==
  LET same == [ editedBeadColors |-> editedBeadColors,
                selectedColor |-> selectedColor,
                editTool |-> editTool, hasEdits |-> hasEdits ]
  IN  IF notEditing THEN same
      ELSE LET width == Len(editedBeadColors[1])
               height == Len(editedBeadColors)
           IN  IF x < 0 \/ x >= width \/ y < 0 \/ y >= height THEN same
               ELSE IF editTool = "add"
               THEN [ same EXCEPT
                        !.editedBeadColors[y + 1][x + 1] = selectedColor,
                        !.hasEdits = TRUE ]
               ELSE IF editTool = "erase"
               THEN [ same EXCEPT
                        !.editedBeadColors[y + 1][x + 1] = Transparent,
                        !.hasEdits = TRUE ]
               ELSE LET pickedColor == editedBeadColors[y + 1][x + 1]
                    IN  IF pickedColor # Transparent
                        THEN [ same EXCEPT !.selectedColor = pickedColor,
                                           !.editTool = "add",
                                           !.hasEdits = TRUE ]
                        ELSE [ same EXCEPT !.hasEdits = TRUE ]

\* The redraw at the end of handleCanvasDraw: unless the tool is erase it
\* reads editedBeadColors[y][x] of the render's closure; for a row index
\* outside the array editedBeadColors[y] is undefined and the read of [x]
\* throws a TypeError.  (A column outside the row reads undefined: no throw.)
redrawThrows(x, y) ==
  /\ editTool # "erase"
  /\ (y < 0 \/ y >= Len(editedBeadColors))

\* handleCanvasDraw(clientX, clientY) for a pointer or touch position that
\* maps to grid cell (x, y); the canvas redraw that follows changes no state.
\* newBeadColors[y][x] = ... writes into the row object itself.
CanvasDraw(x, y) ==
  /\ canvasMounted
  /\ editedBeadColors # <<>>
  /\ gesture
  /\ \E new \in { handlePatternEdit(x, y) },
        inRange \in { /\ x >= 0 /\ x < Len(editedBeadColors[1])
                      /\ y >= 0 /\ y < Len(editedBeadColors) } :
         /\ editedBeadColors' = new.editedBeadColors
         /\ beadColors' = IF aliased THEN new.editedBeadColors ELSE beadColors
         /\ selectedColor' = new.selectedColor
         /\ editTool' = new.editTool
         /\ hasEdits' = new.hasEdits
         /\ lastOp' = [ op |-> "canvasDraw", tool |-> editTool,
                        inRange |-> inRange, x |-> x, y |-> y,
                        threw |-> redrawThrows(x, y) ]
  /\ UNCHANGED << originalImage, settingVars, timer, inflight, newest,
                  isProcessing,
                  beadPattern, colorCounts, isEditMode, aliased, session,
                  shownGrid, call, fill >>

\* handlePatternEdit(x, y) called while the editor is in Viewing (the canvas
\* that carries the pointer handlers is not rendered then, so this is a call
\* of the function itself).
PatternEditInViewing(x, y) ==
  /\ ~isEditMode
  /\ gesture
  /\ \E new \in { handlePatternEdit(x, y) } :
       /\ editedBeadColors' = new.editedBeadColors
       /\ beadColors' = IF aliased THEN new.editedBeadColors ELSE beadColors
       /\ selectedColor' = new.selectedColor
       /\ editTool' = new.editTool
       /\ hasEdits' = new.hasEdits
  /\ lastOp' = [ op |-> "patternEdit", tool |-> editTool, x |-> x, y |-> y ]
  /\ UNCHANGED << originalImage, settingVars, timer, inflight, newest,
                  isProcessing,
                  beadPattern, colorCounts, isEditMode, aliased, session,
                  shownGrid, call, fill >>

\* applyEdits: generateEditedPattern(); setIsEditMode(false).
\* generateEditedPattern returns at once when the canvas is not mounted; else
\* it redraws the canvas from editedBeadColors with the current beadSize and
\* showGrid, and sets beadPattern and colorCounts.  The Apply button is
\* disabled unless hasEdits.
ApplyEdits ==
  /\ isEditMode
  /\ hasEdits
  /\ gesture
  /\ IF editedBeadColors = <<>> \/ ~canvasMounted
     THEN UNCHANGED << beadPattern, colorCounts, shownGrid >>
     ELSE /\ beadPattern' = renderPattern(editedBeadColors, beadSize, showGrid)
          /\ colorCounts' = countColors(editedBeadColors)
          /\ shownGrid' = editedBeadColors
  /\ isEditMode' = FALSE
  /\ session' = [session EXCEPT !.open = FALSE]
  /\ lastOp' = [ op |-> "applyEdits",
                 rasterized |-> (editedBeadColors # <<>> /\ canvasMounted) ]
  /\ UNCHANGED << originalImage, settingVars, timer, inflight, newest,
                  isProcessing,
                  beadColors, editTool, selectedColor, editedBeadColors,
                  hasEdits, aliased, call, fill >>

\* A mutant of CancelEdits: the copy goes the wrong way
\* (setBeadColors of a clone of editedBeadColors).
CancelEditsWrongWay ==
  /\ isEditMode
  /\ gesture
  /\ beadColors' = jsonClone(editedBeadColors)
  /\ aliased' = jsonCloneSharesRows
  /\ hasEdits' = FALSE
  /\ isEditMode' = FALSE
  /\ session' = [session EXCEPT !.open = FALSE]
  /\ lastOp' = [ op |-> "cancelEdits",
                 dirty |-> (editedBeadColors # beadColors) ]
  /\ UNCHANGED << originalImage, settingVars, timer, inflight, newest,
                  isProcessing,
                  beadPattern, editedBeadColors, colorCounts, editTool,
                  selectedColor, shownGrid, call, fill >>

\* cancelEdits
CancelEdits ==
  /\ isEditMode
  /\ gesture
  /\ editedBeadColors' = jsonClone(beadColors)
  /\ aliased' = jsonCloneSharesRows
  /\ hasEdits' = FALSE
  /\ isEditMode' = FALSE
  /\ session' = [session EXCEPT !.open = FALSE]
  /\ lastOp' = [ op |-> "cancelEdits",
                 dirty |-> (editedBeadColors # beadColors) ]
  /\ UNCHANGED << originalImage, settingVars, timer, inflight, newest,
                  isProcessing,
                  beadPattern, beadColors, colorCounts, editTool,
                  selectedColor, shownGrid, call, fill >>

ShellInit ==
  /\ originalImage = NoImage
  /\ beadPattern = NoPattern
  /\ beadColors = <<>>
  /\ isProcessing = FALSE
  /\ colorCounts = EmptyCounts
  /\ isEditMode = FALSE
  /\ editTool = "add"
  /\ selectedColor = HexBlack
  /\ editedBeadColors = <<>>
  /\ hasEdits = FALSE
  /\ beadSize = DefaultBeadSize
  /\ maxBeads = DefaultMaxBeads
  /\ selectedPalette = "standard"
  /\ showGrid = TRUE
  /\ dithering = FALSE
  /\ removeBackground = FALSE
  /\ backgroundThreshold = DefaultThreshold
  /\ timer = FALSE
  /\ inflight = <<>>
  /\ lastOp = [op |-> "init"]
  /\ session = NoSession
  /\ shownGrid = <<>>
  /\ budget = [changes |-> MaxChanges, gestures |-> MaxGestures]
  /\ newest = [seq |-> 0, outcome |-> "none"]
  /\ aliased = FALSE

Init ==
  /\ ShellInit
  /\ call = NoCall
  /\ fill = NoFill

Next ==
  \/ \E img \in ShellImages : Upload(img)
  \/ \E v \in MaxBeadsChoices : SetMaxBeads(v)
  \/ \E v \in BeadSizeChoices : SetBeadSize(v)
  \/ \E name \in PaletteNames : SetSelectedPalette(name)
  \/ SetShowGrid
  \/ SetDithering
  \/ SetRemoveBackground
  \/ \E v \in ThresholdChoices : SetBackgroundThreshold(v)
  \/ TimerFires
  \/ \E i \in 1..Len(inflight) : RunCompletes(i)
  \/ EnterEdit
  \/ \E tool \in {"add", "erase", "pick"} : SelectTool(tool)
  \/ \E color \in swatches : SelectColor(color)
  \/ \E x \in (-1)..MaxTarget, y \in (-1)..MaxTarget : CanvasDraw(x, y)
  \/ ApplyEdits
  \/ CancelEdits

Spec == Init /\ [][Next]_vars

-----------------------------------------------------------------------------
(* The edit workflow on a generated pattern: longer sequences of gestures *)

MaxEditGestures == 6

\* The run of the example image under the initial settings, with background
\* removal as the switch was left before the upload.
editRun(rb) ==
  [ img |-> ImgExample, beadSize |-> DefaultBeadSize,
    maxBeads |-> DefaultMaxBeads, palette |-> "standard", showGrid |-> TRUE,
    dithering |-> FALSE, removeBackground |-> rb,
    backgroundThreshold |-> DefaultThreshold, seq |-> 1 ]

\* The state in which the upload's run has completed and its result has been
\* applied (Upload, TimerFires, RunCompletes from the initial state).
InitEdit ==
  \E rb \in BOOLEAN : \E result \in { runResult(editRun(rb), TRUE) } :
    /\ originalImage = ImgExample
    /\ beadPattern = result.patternDataUrl
    /\ beadColors = result.colorGrid
    /\ isProcessing = FALSE
    /\ colorCounts = countColors(result.colorGrid)
    /\ isEditMode = FALSE
    /\ editTool = "add"
    /\ selectedColor = HexBlack
    /\ editedBeadColors = jsonClone(result.colorGrid)
    /\ hasEdits = FALSE
    /\ beadSize = DefaultBeadSize
    /\ maxBeads = DefaultMaxBeads
    /\ selectedPalette = "standard"
    /\ showGrid = TRUE
    /\ dithering = FALSE
    /\ removeBackground = rb
    /\ backgroundThreshold = DefaultThreshold
    /\ timer = FALSE
    /\ inflight = <<>>
    /\ aliased = jsonCloneSharesRows
    /\ lastOp = [ op |-> "runCompletes", ok |-> TRUE, run |-> editRun(rb),
                  latest |-> TRUE, settled |-> [ok |-> TRUE] ]
    /\ session = NoSession
    /\ shownGrid = result.colorGrid
    /\ budget = [changes |-> 0, gestures |-> MaxEditGestures]
    /\ newest = [seq |-> 1, outcome |-> "resolved"]
    /\ call = NoCall
    /\ fill = NoFill

NextEdit ==
  \/ EnterEdit
  \/ \E tool \in {"add", "erase", "pick"} : SelectTool(tool)
  \/ \E color \in swatches : SelectColor(color)
  \/ \E x \in (-1)..MaxTarget, y \in (-1)..MaxTarget : CanvasDraw(x, y)
  \/ ApplyEdits
  \/ CancelEdits

SpecEdit == InitEdit /\ [][NextEdit]_vars

\* The edit workflow together with calls of handlePatternEdit in Viewing.
NextViewing ==
  \/ NextEdit
  \/ \E x \in (-1)..MaxTarget, y \in (-1)..MaxTarget :
       PatternEditInViewing(x, y)

SpecViewing == InitEdit /\ [][NextViewing]_vars

-----------------------------------------------------------------------------
(* findClosestColor and the dimension calculation on their own *)

InitClosest ==
  /\ ShellInit
  /\ fill = NoFill
  /\ call \in [ fn : {"findClosestColor"}, r : QueryChannels,
                g : QueryChannels, b : QueryChannels,
                palette : ClosestPalettes, done : {FALSE}, ret : { <<>> } ]

NextClosest == CallClosest

SpecClosest == InitClosest /\ [][NextClosest]_vars

NativeSizes == ((1..MaxNative) \X (1..MaxNative)) \cup ExtremeSizes

InitResample ==
  /\ ShellInit
  /\ fill = NoFill
  /\ \E size \in NativeSizes, m \in 1..MaxCells :
       call = [ fn |-> "targetSize", w |-> size[1], h |-> size[2], m |-> m,
                done |-> FALSE, ret |-> [width |-> 0, height |-> 0] ]

NextResample == CallTargetSize

SpecResample == InitResample /\ [][NextResample]_vars

-----------------------------------------------------------------------------
(* processImage applied to bounded images and settings *)

MaxGenBeads == 2
MaxGenBeadSize == 2

GenColors == { Red, Blue, White }

GenSizes == { <<1, 1>>, <<2, 1>>, <<1, 2>>, <<2, 2>>, <<3, 1>> }

GenImages ==
  UNION { { [ decodes |-> TRUE, width |-> size[1], height |-> size[2],
              data |-> d ] : d \in [ 1..(size[1] * size[2]) -> GenColors ] }
          : size \in GenSizes }

HexWhite == <<"#","F","F","F","F","F","F">>

GenPalettes ==
  { <<>>, ExamplePalette, << HexWhite, HexBlack, HexRed >>, standardPalette }

\* One call of processImage, and the colour count the caller makes of its
\* result.
CallProcessImage ==
  /\ call.fn = "processImage"
  /\ ~call.done
  /\ \E result \in { processImage(call.img, call.beadSize, call.maxBeads,
                                  call.palette, call.showGrid, call.dithering,
                                  call.removeBackground,
                                  call.backgroundThreshold) } :
       call' = [call EXCEPT !.done = TRUE,
                            !.ret = result,
                            !.counts = IF result.ok
                                       THEN countColors(result.colorGrid)
                                       ELSE EmptyCounts]
  /\ UNCHANGED << shellVars, fill >>

\* A second call of processImage with the arguments of the first.
CallProcessImageAgain ==
  /\ call.fn = "processImage"
  /\ call.done
  /\ ~call.repeated
  /\ call' = [call EXCEPT !.repeated = TRUE,
                          !.again = processImage(call.img, call.beadSize,
                                      call.maxBeads, call.palette,
                                      call.showGrid, call.dithering,
                                      call.removeBackground,
                                      call.backgroundThreshold)]
  /\ UNCHANGED << shellVars, fill >>

InitGenerate ==
  /\ ShellInit
  /\ fill = NoFill
  /\ call \in [ fn : {"processImage"}, img : GenImages,
                beadSize : 1..MaxGenBeadSize, maxBeads : 1..MaxGenBeads,
                palette : GenPalettes, showGrid : BOOLEAN,
                dithering : BOOLEAN, removeBackground : BOOLEAN,
                backgroundThreshold : {DefaultThreshold},
                done : {FALSE}, ret : { [ok |-> FALSE] },
                counts : {EmptyCounts},
                repeated : {FALSE}, again : { [ok |-> FALSE] } ]

NextGenerate ==
  \/ CallProcessImage
  \/ CallProcessImageAgain

SpecGenerate == InitGenerate /\ [][NextGenerate]_vars

-----------------------------------------------------------------------------
(* The flood fill, one iteration of its loop at a time *)

MaxFloodSide == 3

FloodColors == { White, Grey }

\* A 5x5 buffer: a white border, a red ring inside it, a white centre.
ImgRing ==
  [ width |-> 5, height |-> 5,
    data |-> << White, White, White, White, White,
                White, Red,   Red,   Red,   White,
                White, Red,   White, Red,   White,
                White, Red,   Red,   Red,   White,
                White, White, White, White, White >> ]

FloodBuffers ==
  UNION { { [ width |-> w, height |-> h, data |-> d ]
            : d \in [ 1..(w * h) -> FloodColors ] }
          : w \in 1..MaxFloodSide, h \in 1..MaxFloodSide }
    \cup { ImgRing }

\* backgroundThreshold values: the default, and one at which Grey lies exactly
\* on the bound from White.
FloodThresholds == { DefaultThreshold, 20 }

InitFlood ==
  /\ ShellInit
  /\ call = NoCall
  /\ \E buf \in FloodBuffers, t \in FloodThresholds :
       fill = [ pc |-> "loop", data |-> buf.data, width |-> buf.width,
                height |-> buf.height, threshold |-> t,
                bg |-> backgroundSeed(buf.data, buf.width, buf.height),
                st |-> floodStart(buf.width, buf.height) ]

\* One iteration of the while loop.
FloodIterate ==
  /\ fill.pc = "loop"
  /\ fill.st.queue # <<>>
  /\ fill' = [fill EXCEPT !.st = floodStep(fill.st, fill.data, fill.width,
                                           fill.height, fill.bg,
                                           fill.threshold)]
  /\ UNCHANGED << shellVars, call >>

\* The loop condition fails: queue.length = 0.
FloodExit ==
  /\ fill.pc = "loop"
  /\ fill.st.queue = <<>>
  /\ fill' = [fill EXCEPT !.pc = "done"]
  /\ UNCHANGED << shellVars, call >>

NextFlood ==
  \/ FloodIterate
  \/ FloodExit

SpecFlood == InitFlood /\ [][NextFlood]_vars

\* The loop is synchronous code: while it can take a step it takes one.
SpecFloodFair == SpecFlood /\ WF_vars(NextFlood)

-----------------------------------------------------------------------------
(* Properties *)

\* The squared Euclidean distance of a palette entry from a query.
entryDistance(color, r, g, b) ==
  LET p == hexToRGB(color)
  IN  (r - p[1]) * (r - p[1]) + (g - p[2]) * (g - p[2])
        + (b - p[3]) * (b - p[3])

\* C1: for a non-empty palette findClosestColor returns the entry at the
\* smallest index among the entries whose distance to the query is minimal:
\* no entry is nearer than it and every earlier entry is strictly farther.
C1_NearestEarliest ==
  (call.fn = "findClosestColor" /\ call.done /\ call.palette # <<>>) =>
    \E i \in 1..Len(call.palette) :
      /\ call.ret = call.palette[i]
      /\ \A j \in 1..Len(call.palette) :
           entryDistance(call.palette[i], call.r, call.g, call.b)
             <= entryDistance(call.palette[j], call.r, call.g, call.b)
      /\ \A j \in 1..(i - 1) :
           entryDistance(call.palette[j], call.r, call.g, call.b)
             > entryDistance(call.palette[i], call.r, call.g, call.b)

\* A call has returned the earlier of two different entries that are both at
\* the minimal distance from the query.
C1_Witness ==
  /\ call.fn = "findClosestColor"
  /\ call.done
  /\ Len(call.palette) = 2
  /\ call.palette[1] # call.palette[2]
  /\ entryDistance(call.palette[1], call.r, call.g, call.b)
       = entryDistance(call.palette[2], call.r, call.g, call.b)
  /\ call.ret = call.palette[1]

\* v is short * m / long rounded to a nearest integer.
nearestScaled(v, short, m, long) ==
  LET diff == v * long - short * m
  IN  2 * (IF diff < 0 THEN -diff ELSE diff) <= long

\* C2: when the longer native axis exceeds maxCells the longer target axis is
\* maxCells and the shorter one is the shorter native axis scaled by
\* maxCells / longer and rounded to the nearest integer; otherwise the target
\* is the native size.  20x10 with maxCells 10 gives 10x5, and a square image
\* larger than maxCells gives maxCells x maxCells.
C2_TargetDimensions ==
  (call.fn = "targetSize" /\ call.done) =>
    /\ IF call.w > call.m \/ call.h > call.m
       THEN /\ call.w > call.h =>
                 /\ call.ret.width = call.m
                 /\ nearestScaled(call.ret.height, call.h, call.m, call.w)
            /\ call.h > call.w =>
                 /\ call.ret.height = call.m
                 /\ nearestScaled(call.ret.width, call.w, call.m, call.h)
            /\ call.w = call.h =>
                 call.ret = [width |-> call.m, height |-> call.m]
       ELSE call.ret = [width |-> call.w, height |-> call.h]
    /\ (call.w = 20 /\ call.h = 10 /\ call.m = 10) =>
         call.ret = [width |-> 10, height |-> 5]

\* The 20x10 example has been computed.
C2_Witness ==
  /\ call.fn = "targetSize"
  /\ call.done
  /\ call.w = 20 /\ call.h = 10 /\ call.m = 10
  /\ call.ret = [width |-> 10, height |-> 5]

\* C3: both computed target dimensions are at least 1 for every native size
\* and every maxCells (a native 100x1 image with maxCells 10 has height 1).
C3_AtLeastOne ==
  (call.fn = "targetSize" /\ call.done) =>
    /\ call.ret.width >= 1
    /\ call.ret.height >= 1

\* The positions of a grid, as << row, column >> counted from 1.
cellsOf(grid) ==
  { << y, x >> : y \in 1..Len(grid), x \in 1..(IF grid = <<>> THEN 0
                                                ELSE Len(grid[1])) }

\* C4: after a successful run the canonical grid has as many rows as the
\* target height and every row as many cells as the target width, and the
\* bitmap measures target width x cell size by target height x cell size;
\* the bitmap regenerated by a commit measures the edit buffer's columns and
\* rows times the cell size.
C4_Dimensions ==
  /\ (lastOp.op = "runCompletes" /\ lastOp.ok) =>
       LET target == targetSize(lastOp.run.img.width, lastOp.run.img.height,
                                lastOp.run.maxBeads)
       IN  /\ Len(beadColors) = target.height
           /\ \A y \in 1..Len(beadColors) : Len(beadColors[y]) = target.width
           /\ beadPattern.width = target.width * lastOp.run.beadSize
           /\ beadPattern.height = target.height * lastOp.run.beadSize
           /\ Len(decodeDataURL(beadPattern).px) = beadPattern.height
           /\ \A row \in 1..beadPattern.height :
                Len(decodeDataURL(beadPattern).px[row]) = beadPattern.width
  /\ (lastOp.op = "applyEdits" /\ lastOp.rasterized) =>
       /\ beadPattern.width = Len(editedBeadColors[1]) * beadSize
       /\ beadPattern.height = Len(editedBeadColors) * beadSize

\* A run has scaled its image down to maxBeads cells, and a commit has then
\* regenerated the bitmap from an edit buffer changed by a tool.
C4_Witness ==
  /\ lastOp.op = "applyEdits"
  /\ lastOp.rasterized
  /\ editedBeadColors # beadColors
  /\ originalImage.width > maxBeads
  /\ Len(beadColors[1]) = maxBeads
  /\ beadPattern.width = maxBeads * beadSize

\* The buffer a call of processImage quantizes, and its Transparent-Pixel Set.
callTarget == targetSize(call.img.width, call.img.height, call.maxBeads)

callBuffer == drawImage(call.img, callTarget.width, callTarget.height)

callTransparent ==
  transparentPixelsOf(callBuffer, callTarget.width, callTarget.height,
                      call.removeBackground, call.backgroundThreshold)

\* C5: after a successful run with a non-empty palette every cell is the
\* transparent sentinel or literally an entry of the palette of that run,
\* dithered or not; with removeBackground off no cell is transparent.
C5_CellsFromPalette ==
  (call.fn = "processImage" /\ call.done /\ call.ret.ok
     /\ call.palette # <<>>) =>
    /\ \A pos \in cellsOf(call.ret.colorGrid) :
         \/ call.ret.colorGrid[pos[1]][pos[2]] = Transparent
         \/ \E i \in 1..Len(call.palette) :
              call.ret.colorGrid[pos[1]][pos[2]] = call.palette[i]
    /\ ~call.removeBackground =>
         \A pos \in cellsOf(call.ret.colorGrid) :
           call.ret.colorGrid[pos[1]][pos[2]] # Transparent

\* A dithered run with background removal has produced a grid holding both a
\* transparent cell and a palette colour.
C5_Witness ==
  /\ call.fn = "processImage"
  /\ call.done
  /\ call.ret.ok
  /\ call.dithering
  /\ call.removeBackground
  /\ \E p, q \in cellsOf(call.ret.colorGrid) :
       /\ call.ret.colorGrid[p[1]][p[2]] = Transparent
       /\ call.ret.colorGrid[q[1]][q[2]] # Transparent

\* Normalized distance strictly below threshold / 100, both sides squared:
\* d2 / (3 * 255^2) < threshold^2 / 100^2.
withinBound(p, seed, threshold) ==
  10000 * ( (p[1] - seed[1]) * (p[1] - seed[1])
            + (p[2] - seed[2]) * (p[2] - seed[2])
            + (p[3] - seed[3]) * (p[3] - seed[3]) )
    < threshold * threshold * 195075

onBorder(idx, width, height) ==
  \/ idx % width = 0
  \/ idx % width = width - 1
  \/ idx \div width = 0
  \/ idx \div width = height - 1

adjacent(i, j, width) ==
  \/ /\ i \div width = j \div width
     /\ (i % width) - (j % width) \in {-1, 1}
  \/ /\ i % width = j % width
     /\ (i \div width) - (j \div width) \in {-1, 1}

\* The pixels joined to S by a 4-connected path of pixels of the set near.
RECURSIVE pathClosure(_, _, _)
pathClosure(S, near, width) ==
  LET T == S \cup { j \in near : \E i \in S : adjacent(i, j, width) }
  IN  IF T = S THEN S ELSE pathClosure(T, near, width)

\* The pixels with a 4-connected path from the border on which every pixel,
\* both ends included, is within the bound of the seed colour.
borderConnected(data, width, height, seed, threshold) ==
  LET near == { i \in 0..(width * height - 1) :
                  withinBound(data[i + 1], seed, threshold) }
  IN  pathClosure({ i \in near : onBorder(i, width, height) }, near, width)

\* C6: when the flood fill has finished, a pixel is in the Transparent-Pixel
\* Set exactly if a 4-connected path leads to it from a border pixel with
\* every pixel on the path strictly within the threshold of the seed colour.
C6_FloodFill ==
  fill.pc = "done" =>
    fill.st.transparentPixels
      = borderConnected(fill.data, fill.width, fill.height, fill.bg,
                        fill.threshold)

\* A finished fill of a buffer whose border has one colour throughout: all of
\* the border is transparent and an interior pixel of that same colour,
\* enclosed by pixels outside the threshold, is not.
C6_Witness ==
  /\ fill.pc = "done"
  /\ \A i \in 0..(fill.width * fill.height - 1) :
       onBorder(i, fill.width, fill.height) =>
         /\ fill.data[i + 1] = fill.bg
         /\ i \in fill.st.transparentPixels
  /\ \E i \in 0..(fill.width * fill.height - 1) :
       /\ ~onBorder(i, fill.width, fill.height)
       /\ fill.data[i + 1] = fill.bg
       /\ i \notin fill.st.transparentPixels

\* C7: without dithering each cell is transparent if its pixel is in the
\* Transparent-Pixel Set and otherwise findClosestColor of that pixel's own
\* colour in the buffer; the 2x1 image (255,0,0), (0,0,255) with the palette
\* [#FF0000, #0000FF] and no background removal gives [[#FF0000, #0000FF]]
\* and the counts {#FF0000: 1, #0000FF: 1}.
C7_PerPixel ==
  (call.fn = "processImage" /\ call.done /\ ~call.dithering) =>
    /\ call.ret.ok =>
         \A pos \in cellsOf(call.ret.colorGrid) :
           LET idx == (pos[1] - 1) * callTarget.width + (pos[2] - 1)
               pixel == callBuffer[idx + 1]
           IN  call.ret.colorGrid[pos[1]][pos[2]]
                 = IF idx \in callTransparent THEN Transparent
                   ELSE findClosestColor(pixel[1], pixel[2], pixel[3],
                                         call.palette)
    /\ ( call.img = ImgExample /\ call.palette = ExamplePalette
         /\ ~call.removeBackground /\ call.maxBeads >= 2 ) =>
         /\ call.ret.ok
         /\ call.ret.colorGrid = << << HexRed, HexBlue >> >>
         /\ DOMAIN call.counts = { HexRed, HexBlue }
         /\ call.counts[HexRed] = 1
         /\ call.counts[HexBlue] = 1

\* An undithered run with background removal on a buffer of several colours
\* has produced a grid with a transparent cell and two different colours.
C7_Witness ==
  /\ call.fn = "processImage"
  /\ call.done
  /\ call.ret.ok
  /\ ~call.dithering
  /\ call.removeBackground
  /\ \E p, q, u \in cellsOf(call.ret.colorGrid) :
       /\ call.ret.colorGrid[p[1]][p[2]] = Transparent
       /\ call.ret.colorGrid[q[1]][q[2]] # Transparent
       /\ call.ret.colorGrid[u[1]][u[2]] # Transparent
       /\ call.ret.colorGrid[q[1]][q[2]] # call.ret.colorGrid[u[1]][u[2]]

\* The sum of the values of a count map.
RECURSIVE sumOf(_)
sumOf(counts) ==
  IF DOMAIN counts = {} THEN 0
  ELSE LET c == CHOOSE k \in DOMAIN counts : TRUE
       IN  counts[c]
             + sumOf([ k \in DOMAIN counts \ {c} |-> counts[k] ])

\* counts is the exact colour count of grid: each key is a colour of at least
\* one cell and maps to the number of cells holding it, every colour of the
\* grid is a key, the transparent sentinel is not, and the counts add up to
\* the number of cells that are not transparent.
countsDescribe(counts, grid) ==
  /\ Transparent \notin DOMAIN counts
  /\ \A c \in DOMAIN counts :
       /\ counts[c] >= 1
       /\ counts[c]
            = Cardinality({ pos \in cellsOf(grid) : grid[pos[1]][pos[2]] = c })
  /\ \A pos \in cellsOf(grid) :
       grid[pos[1]][pos[2]] # Transparent =>
         grid[pos[1]][pos[2]] \in DOMAIN counts
  /\ sumOf(counts)
       = Cardinality({ pos \in cellsOf(grid) :
                         grid[pos[1]][pos[2]] # Transparent })

\* C8: right after a generation result is applied and right after every
\* commit, colorCounts is the exact colour count of the grid that was last
\* rasterized (the generated grid; the edit buffer when the commit
\* rasterized it), without a transparent key or a zero count.
C8_CountsExact ==
  /\ (lastOp.op = "runCompletes" /\ lastOp.ok) =>
       /\ shownGrid = beadColors
       /\ countsDescribe(colorCounts, beadColors)
  /\ lastOp.op = "applyEdits" =>
       /\ lastOp.rasterized => shownGrid = editedBeadColors
       /\ countsDescribe(colorCounts, shownGrid)

\* A commit has rasterized an edit buffer that differs from the generated
\* grid, and the counts differ from those the session started with.
C8_Witness ==
  /\ lastOp.op = "applyEdits"
  /\ lastOp.rasterized
  /\ editedBeadColors # beadColors
  /\ colorCounts # session.counts

\* C9: after every commit the editor is back in Viewing, the canonical grid
\* holds the edit buffer's contents, and the bitmap and the counts are those
\* of that grid.
C9_CommitReplacesGrid ==
  lastOp.op = "applyEdits" =>
    /\ ~isEditMode
    /\ beadColors = editedBeadColors
    /\ beadPattern = renderPattern(beadColors, beadSize, showGrid)
    /\ countsDescribe(colorCounts, beadColors)

\* C10: after a cancel that ends a session of tool applications during which
\* no generation result was applied, the editor is in Viewing and the
\* canonical grid, the bitmap and the counts are those at enterEdit.
C10_CancelRoundTrip ==
  (lastOp.op = "cancelEdits" /\ session.clean) =>
    /\ ~isEditMode
    /\ beadColors = session.grid
    /\ beadPattern = session.pattern
    /\ colorCounts = session.counts

\* A cancel has discarded an edit buffer that tools had changed.
C10_Witness ==
  /\ lastOp.op = "cancelEdits"
  /\ lastOp.dirty
  /\ session.clean
  /\ editedBeadColors = beadColors

-----------------------------------------------------------------------------
(* The editor *)

\* C11: right after every enterEdit the edit buffer holds the contents of the
\* canonical grid (the grid the displayed bitmap and the counts were
\* produced from: the last generation result or the last committed grid) and
\* shares no storage with beadColors.
C11_EnterEditCopies ==
  lastOp.op = "enterEdit" =>
    /\ editedBeadColors = shownGrid
    /\ ~aliased

\* C12: an add or erase applied to a cell of the grid sets exactly that cell
\* of the edit buffer (to the selected colour, or to the transparent
\* sentinel) and leaves every other cell, the selected colour and the active
\* tool as they were.
C12_AddEraseOneCell ==
  [][ ( /\ lastOp'.op = "canvasDraw"
        /\ lastOp'.inRange
        /\ lastOp'.tool \in {"add", "erase"} ) =>
      /\ Len(editedBeadColors') = Len(editedBeadColors)
      /\ \A r \in 1..Len(editedBeadColors) :
           /\ Len(editedBeadColors'[r]) = Len(editedBeadColors[r])
           /\ \A c \in 1..Len(editedBeadColors[r]) :
                editedBeadColors'[r][c] =
                  IF r = lastOp'.y + 1 /\ c = lastOp'.x + 1
                  THEN IF lastOp'.tool = "add" THEN selectedColor
                       ELSE Transparent
                  ELSE editedBeadColors[r][c]
      /\ selectedColor' = selectedColor
      /\ editTool' = editTool ]_vars

\* An add has changed its target cell to the selected colour and a cell
\* beside it still holds what the session started with.
C12_Witness ==
  /\ lastOp.op = "canvasDraw"
  /\ lastOp.tool = "add"
  /\ lastOp.inRange
  /\ session.open
  /\ editedBeadColors[lastOp.y + 1][lastOp.x + 1] = selectedColor
  /\ session.buffer[lastOp.y + 1][lastOp.x + 1] # selectedColor
  /\ \E c \in 1..Len(editedBeadColors[1]) :
       /\ c # lastOp.x + 1
       /\ editedBeadColors[1][c] = session.buffer[1][c]

\* C13: a pick on a cell of the grid never changes a cell of the edit buffer;
\* on a cell that is not transparent the selected colour becomes the cell's
\* colour and the tool becomes add; on a transparent cell nothing changes:
\* not the selected colour, the tool, the buffer, or the pending-edits status.
C13_Pick ==
  [][ ( /\ lastOp'.op = "canvasDraw"
        /\ lastOp'.inRange
        /\ lastOp'.tool = "pick" ) =>
      /\ editedBeadColors' = editedBeadColors
      /\ IF editedBeadColors[lastOp'.y + 1][lastOp'.x + 1] # Transparent
         THEN /\ selectedColor'
                   = editedBeadColors[lastOp'.y + 1][lastOp'.x + 1]
              /\ editTool' = "add"
         ELSE /\ selectedColor' = selectedColor
              /\ editTool' = editTool
              /\ hasEdits' = hasEdits ]_vars

\* C14: a tool application whose target lies outside the grid changes no
\* state, whatever the tool, and the handler returns without throwing.
C14_OutOfRangeIgnored ==
  [][ ( /\ lastOp'.op = "canvasDraw"
        /\ ~lastOp'.inRange ) =>
      /\ UNCHANGED << editedBeadColors, beadColors, beadPattern, colorCounts,
                      selectedColor, editTool, hasEdits, isEditMode >>
      /\ ~lastOp'.threw ]_vars

\* C15: a tool application made while the editor is in Viewing changes
\* nothing: not the edit buffer, the canonical grid, the bitmap, the counts,
\* the selected colour, the active tool, or the pending-edits status.
C15_ViewingRejects ==
  [][ lastOp'.op = "patternEdit" =>
        UNCHANGED << editedBeadColors, beadColors, beadPattern, colorCounts,
                     selectedColor, editTool, hasEdits, isEditMode >> ]_vars

\* An add was applied in Viewing to a cell of the grid that holds another
\* colour than the selected one, with no edits pending.
C15_Witness ==
  /\ lastOp.op = "patternEdit"
  /\ lastOp.tool = "add"
  /\ ~isEditMode
  /\ ~hasEdits
  /\ lastOp.x \in 0..(Len(editedBeadColors[1]) - 1)
  /\ lastOp.y \in 0..(Len(editedBeadColors) - 1)
  /\ editedBeadColors[lastOp.y + 1][lastOp.x + 1] # selectedColor

\* C16: the edit buffer never shares row storage with the canonical grid, and
\* the canonical grid changes only when a generation result is applied or on
\* commit: never by a tool application, an enterEdit or a cancel.
C16_CanonicalUntouched ==
  [][ /\ ~aliased'
      /\ beadColors' # beadColors =>
           lastOp'.op \in {"runCompletes", "applyEdits"} ]_vars

\* A tool has changed a cell of the edit buffer and the canonical grid is
\* still the grid the session started with.
C16_Witness ==
  /\ lastOp.op = "canvasDraw"
  /\ lastOp.inRange
  /\ session.open
  /\ editedBeadColors # session.buffer
  /\ beadColors = session.grid
  /\ beadColors # editedBeadColors

-----------------------------------------------------------------------------
(* Scheduling of runs *)

\* C17: a generation run that completes while the editor is in Editing
\* leaves the edit buffer and the session's pending edits as they were.
C17_RunsLeaveBufferAlone ==
  [][ ( /\ isEditMode
        /\ lastOp'.op = "runCompletes" ) =>
      UNCHANGED << editedBeadColors, hasEdits >> ]_vars

\* C18: a run whose result is applied is the most recently scheduled run: no
\* run was scheduled after it.
C18_OnlyLatestApplied ==
  (lastOp.op = "runCompletes" /\ lastOp.ok) => lastOp.latest

\* The runs of one image that are scheduled on the timer or awaiting their
\* image.
runsInFlight(img) ==
  Cardinality({ i \in 1..Len(inflight) : inflight[i].img = img })
    + (IF timer /\ originalImage = img THEN 1 ELSE 0)

\* C19: at every moment at most one run per image is in flight, scheduled on
\* the debounce timer or executing.
C19_OneRunInFlight ==
  \A img \in ShellImages : runsInFlight(img) <= 1

\* The errors a run can be rejected with.
RunErrors ==
  { "Failed to load image", "IndexSizeError", "TypeError",
    "Could not get canvas context" }

\* C20: a failing run settles with one error and nothing else, and in the
\* shell it leaves the bitmap, the canonical grid, the edit buffer, the
\* pending edits and the counts as they were, with the processing indicator
\* back to false.
C20_FailureChangesNothing ==
  [][ ( /\ lastOp'.op = "runCompletes"
        /\ ~lastOp'.ok ) =>
      /\ lastOp'.settled \in [ ok : {FALSE}, error : RunErrors ]
      /\ UNCHANGED << beadPattern, beadColors, editedBeadColors, colorCounts,
                      hasEdits, shownGrid >>
      /\ ~isProcessing' ]_vars

\* A run has failed while the pattern of an earlier run is displayed.
C20_Witness ==
  /\ lastOp.op = "runCompletes"
  /\ ~lastOp.ok
  /\ beadPattern # NoPattern
  /\ beadColors # <<>>
  /\ ~isProcessing

-----------------------------------------------------------------------------
(* The remaining properties of processImage *)

\* C21: processImage called with an empty palette on an image that decodes
\* rejects (it produces no grid and no bitmap), whatever the other settings
\* are and however many pixels the segmenter marks transparent.
C21_EmptyPaletteFails ==
  (call.fn = "processImage" /\ call.done /\ call.palette = <<>>
     /\ call.img.decodes)
    => ~call.ret.ok

-----------------------------------------------------------------------------
(* The palette of the edited cells *)

\* Every cell of a grid is 'transparent' or an entry of the selected palette.
inSelectedPalette(grid) ==
  \A y \in 1..Len(grid) : \A x \in 1..Len(grid[y]) :
    \/ grid[y][x] = Transparent
    \/ \E k \in 1..Len(beadPalettes[selectedPalette]) :
         beadPalettes[selectedPalette][k] = grid[y][x]

\* C22: after any sequence of runs, palette selections, colour selections and
\* tool applications, every cell of the edit buffer and of the committed grid
\* is 'transparent' or a colour of the currently selected palette, and add
\* never writes a colour that is not in the currently selected palette.  The
\* first half is stated for the states in which no run is scheduled or
\* executing, in which the grid on show was computed from the selection.
C22_CellsInSelectedPalette ==
  [][ /\ ( (~timer /\ inflight = <<>>)
             => (inSelectedPalette(editedBeadColors)
                   /\ inSelectedPalette(beadColors)) )'
      /\ ( (lastOp.op = "canvasDraw" /\ lastOp.tool = "add"
              /\ lastOp.inRange /\ ~lastOp.threw)
             => inSelectedPalette(
                  << << editedBeadColors[lastOp.y + 1][lastOp.x + 1] >> >>) )'
    ]_vars

\* The pixels of the block of cell (x, y) on a canvas drawn with beads of the
\* given size.
blockOf(canvas, x, y, size) ==
  { canvas.px[y * size + j][x * size + i] : i \in 1..size, j \in 1..size }

\* C23: on the bitmap of a grid, the block of every transparent cell is fully
\* transparent (no fill and no grid-line stroke of any cell on any of its
\* pixels), and the block of every other cell is filled with the cell's
\* colour, which is opaque; with grid lines on and with grid lines off.
C23_BlocksMatchCells ==
  (call.fn = "processImage" /\ call.done /\ call.ret.ok)
    => LET grid == call.ret.colorGrid
           canvas == decodeDataURL(call.ret.patternDataUrl)
       IN  \A y \in 1..Len(grid) : \A x \in 1..Len(grid[y]) :
             \A p \in blockOf(canvas, x - 1, y - 1, call.beadSize) :
               IF grid[y][x] = Transparent
               THEN p.fill = Transparent /\ p.strokes = 0
               ELSE p.fill = grid[y][x]

-----------------------------------------------------------------------------
(* The background seed on its own *)

MaxSeedSide == 3

\* One evaluation of the seed colour of a buffer.
CallBackgroundSeed ==
  /\ call.fn = "backgroundSeed"
  /\ ~call.done
  /\ call' = [call EXCEPT !.done = TRUE,
                          !.ret = backgroundSeed(call.data, call.width,
                                                 call.height)]
  /\ UNCHANGED << shellVars, fill >>

InitSeed ==
  /\ ShellInit
  /\ fill = NoFill
  /\ \E w \in 1..MaxSeedSide, h \in 1..MaxSeedSide :
       \E d \in [ 1..(w * h) -> GenColors ] :
         call = [ fn |-> "backgroundSeed", data |-> d, width |-> w,
                  height |-> h, done |-> FALSE, ret |-> << >> ]

NextSeed == CallBackgroundSeed

SpecSeed == InitSeed /\ [][NextSeed]_vars

\* The eight probes of a width x height buffer as <<x, y>>, in the order top
\* left, top right, bottom left, bottom right, top middle, bottom middle,
\* left middle, right middle.
probes(width, height) ==
  << << 0, 0 >>, << width - 1, 0 >>, << 0, height - 1 >>,
     << width - 1, height - 1 >>,
     << width \div 2, 0 >>, << width \div 2, height - 1 >>,
     << 0, height \div 2 >>, << width - 1, height \div 2 >> >>

\* The colour of probe k of the buffer of the call.
probeColor(k) ==
  LET p == probes(call.width, call.height)[k]
  IN  call.data[p[2] * call.width + p[1] + 1]

\* The number of the eight probes that have the colour of probe k.
probeCount(k) == Cardinality({ j \in 1..8 : probeColor(j) = probeColor(k) })

\* C27: the background seed is the RGB value occurring most often among
\* exactly eight probe pixels (the four corners and the four edge midpoints at
\* floor(width/2) and floor(height/2)); of equally frequent values the one
\* sampled first in probe order is chosen.
C27_SeedMostFrequentProbe ==
  (call.fn = "backgroundSeed" /\ call.done)
    => \E k \in 1..8 :
         /\ call.ret = probeColor(k)
         /\ \A j \in 1..8 : probeCount(j) <= probeCount(k)
         /\ \A j \in 1..8 : probeCount(j) = probeCount(k) => j >= k

\* A seed chosen on a 3x3 buffer with three probe colours, two of which are
\* equally frequent and more frequent than the third, which is the colour of
\* the first probe; the seed is not the colour of the last probe.
C27_Witness ==
  /\ call.fn = "backgroundSeed"
  /\ call.done
  /\ call.width = 3
  /\ call.height = 3
  /\ Cardinality({ probeColor(k) : k \in 1..8 }) = 3
  /\ \E k, j \in 1..8 :
       /\ probeColor(k) # probeColor(j)
       /\ probeCount(k) = 3
       /\ probeCount(j) = 3
       /\ call.ret = probeColor(k)
       /\ probeColor(8) = probeColor(j)
       /\ probeColor(1) \notin { probeColor(k), probeColor(j) }

-----------------------------------------------------------------------------
(* Determinism *)

-----------------------------------------------------------------------------
(* The dithering loops, one iteration at a time *)

MaxDitherSide == 3

\* Pixels of the working copy with their alpha channel: <<r, g, b, a>>.
DitherColors == { << 204, 204, 204, 255 >>, << 0, 0, 1, 255 >> }

DitherPalettes == { << HexNearBlack, HexBlack >>, << HexWhite, HexBlack >> }

\* The sets of transparent pixel indices tried: none, and the second pixel.
DitherTransparent == { {}, {1} }

InitDither ==
  /\ ShellInit
  /\ call = NoCall
  /\ \E w \in 1..MaxDitherSide, h \in 1..MaxDitherSide :
       \E d \in [ 1..(w * h) -> DitherColors ], p \in DitherPalettes,
          tp \in DitherTransparent :
         fill = [ pc |-> "dither", width |-> w, height |-> h, palette |-> p,
                  transparentPixels |-> tp, data |-> d, i |-> 0, pixels |-> d,
                  cells |-> <<>>, prev |-> d ]

\* One iteration of the inner loop; prev keeps the working copy as it was
\* before the iteration.
DitherIterate ==
  /\ fill.pc = "dither"
  /\ fill.i < fill.width * fill.height
  /\ \E st \in { ditherStep([ i |-> fill.i, pixels |-> fill.pixels,
                              cells |-> fill.cells, ok |-> TRUE ],
                            fill.width, fill.height, fill.palette, TRUE,
                            fill.transparentPixels) } :
       fill' = [fill EXCEPT !.pc = IF st.ok THEN "dither" ELSE "threw",
                            !.i = st.i,
                            !.pixels = st.pixels,
                            !.cells = st.cells,
                            !.prev = fill.pixels]
  /\ UNCHANGED << shellVars, call >>

\* The loops end: y = height.
DitherExit ==
  /\ fill.pc = "dither"
  /\ fill.i >= fill.width * fill.height
  /\ fill' = [fill EXCEPT !.pc = "done"]
  /\ UNCHANGED << shellVars, call >>

NextDither ==
  \/ DitherIterate
  \/ DitherExit

SpecDither == InitDither /\ [][NextDither]_vars

\* An iteration has just run, on the pixel with index fill.i - 1.
iterated == fill.pc = "dither" /\ fill.i > 0

\* The weight, in sixteenths, with which the error of pixel (x, y) goes to the
\* pixel (tx, ty) of a width x height buffer; 0 when it does not go there.
kernelWeight(x, y, tx, ty) ==
  IF tx = x + 1 /\ ty = y THEN 7
  ELSE IF tx = x - 1 /\ ty = y + 1 THEN 3
  ELSE IF tx = x /\ ty = y + 1 THEN 5
  ELSE IF tx = x + 1 /\ ty = y + 1 THEN 1
  ELSE 0

\* n sixteenths limited to the range of a colour channel.
clampChannel16(n) == IF n < 0 THEN 0 ELSE IF n > 255 * 16 THEN 255 * 16 ELSE n

\* v is a value an integer channel can hold for n sixteenths: an integer
\* nearest to n/16 within 0..255.
heldFor(v, n) ==
  /\ v \in 0..255
  /\ 16 * v - clampChannel16(n) <= 8
  /\ clampChannel16(n) - 16 * v <= 8

\* C25: the loops visit the pixels in row-major order.  For a pixel that is
\* not transparent the error of a channel is the value read from the working
\* copy minus the chosen palette colour, and it is added only to (x+1, y)
\* with weight 7/16, (x-1, y+1) with 3/16, (x, y+1) with 5/16 and (x+1, y+1)
\* with 1/16; a target outside the buffer is skipped.  No other pixel changes
\* (none already processed, none reached by wrapping round a row's end) and no
\* alpha value changes.  A transparent pixel spreads nothing.
C25_Kernel ==
  iterated =>
    LET i == fill.i - 1
        x == i % fill.width
        y == i \div fill.width
        read == fill.prev[i + 1]
        cell == fill.cells[i + 1]
        chosen == hexToRGB(cell)
        err(c) == read[c] - chosen[c]
        weight(k) == kernelWeight(x, y, k % fill.width, k \div fill.width)
    IN  /\ Len(fill.cells) = fill.i
        /\ IF i \in fill.transparentPixels
           THEN cell = Transparent /\ fill.pixels = fill.prev
           ELSE /\ \E k \in 1..Len(fill.palette) : fill.palette[k] = cell
                /\ \A k \in 1..Len(fill.palette) :
                     entryDistance(cell, read[1], read[2], read[3])
                       <= entryDistance(fill.palette[k], read[1], read[2],
                                        read[3])
                /\ \A k \in 0..(fill.width * fill.height - 1) :
                     IF weight(k) = 0
                     THEN fill.pixels[k + 1] = fill.prev[k + 1]
                     ELSE /\ \A c \in 1..3 :
                               heldFor(fill.pixels[k + 1][c],
                                       16 * fill.prev[k + 1][c]
                                         + weight(k) * err(c))
                          /\ fill.pixels[k + 1][4] = fill.prev[k + 1][4]

\* The iteration on the centre pixel of a 3x3 buffer has changed its four
\* targets and nothing else; the iteration before it, on the first pixel of
\* the row, had changed the centre pixel.
C25_Witness ==
  /\ iterated
  /\ fill.width = 3
  /\ fill.height = 3
  /\ fill.i = 5
  /\ fill.transparentPixels = {}
  /\ \A k \in 1..9 : (fill.pixels[k] # fill.prev[k]) <=> (k \in {6, 7, 8, 9})
  /\ fill.prev[5] \notin DitherColors

\* A quantizer that keeps the working values exactly.  Values are counted in
\* units of 1/scale, scale a power of 16 large enough for every share to be a
\* whole number of units; a value is limited to 0..255 when it is read, and
\* the palette entry chosen is the first of the nearest ones.  vals are the
\* working values and cells the cells chosen before pixel i.
RECURSIVE exactLoop(_, _, _, _)
exactLoop(i, vals, cells, scale) ==
  IF i >= fill.width * fill.height THEN cells
  ELSE IF i \in fill.transparentPixels
  THEN exactLoop(i + 1, vals, Append(cells, Transparent), scale)
  ELSE LET limit(v) == IF v < 0 THEN 0
                       ELSE IF v > 255 * scale THEN 255 * scale ELSE v
           read == [ c \in 1..3 |-> limit(vals[i + 1][c]) ]
           \* scale * |read/scale - p|^2 less the part that is the same for
           \* every palette entry
           far(p) == (scale * p[1] * p[1] - 2 * read[1] * p[1])
                       + (scale * p[2] * p[2] - 2 * read[2] * p[2])
                       + (scale * p[3] * p[3] - 2 * read[3] * p[3])
           score(k) == far(hexToRGB(fill.palette[k]))
           best == CHOOSE k \in 1..Len(fill.palette) :
                     \A j \in 1..Len(fill.palette) :
                       /\ score(k) <= score(j)
                       /\ j < k => score(k) < score(j)
           p == hexToRGB(fill.palette[best])
           weight(k) == kernelWeight(i % fill.width, i \div fill.width,
                                     k % fill.width, k \div fill.width)
       IN  exactLoop(i + 1,
             [ k \in 1..Len(vals) |->
                 [ c \in 1..3 |->
                     vals[k][c]
                       + (weight(k - 1) * (read[c] - scale * p[c])) \div 16 ] ],
             Append(cells, fill.palette[best]), scale)

\* The cells the exact quantizer gives for the buffer of the run.
exactCells ==
  LET scale == 16 ^ (fill.width * fill.height - 1)
  IN  exactLoop(0, [ k \in 1..Len(fill.data) |->
                       [ c \in 1..3 |-> scale * fill.data[k][c] ] ],
                <<>>, scale)

\* The error shares are added to the working copy without rounding and
\* without clamping.
sharesExact ==
  (iterated /\ (fill.i - 1) \notin fill.transparentPixels) =>
    LET i == fill.i - 1
        read == fill.prev[i + 1]
        chosen == hexToRGB(fill.cells[i + 1])
        weight(k) == kernelWeight(i % fill.width, i \div fill.width,
                                  k % fill.width, k \div fill.width)
    IN  \A k \in 0..(fill.width * fill.height - 1) : \A c \in 1..3 :
          16 * fill.pixels[k + 1][c]
            = 16 * fill.prev[k + 1][c] + weight(k) * (read[c] - chosen[c])

\* The cells written are those of the exact quantizer (compared on the buffers
\* of at most three pixels).
sameAsExact ==
  (fill.pc = "done" /\ fill.width * fill.height <= 3)
    => fill.cells = exactCells

\* C26: the working copy holds the accumulated error exactly: the fractional
\* contributions are neither rounded nor clamped when they are added, only
\* the value read is limited to 0..255; the grid is the one of a quantizer
\* that accumulates exact sixteenths and clamps on read.
C26_ExactAccumulation == sharesExact /\ sameAsExact

-----------------------------------------------------------------------------
(* Termination of the flood fill *)

\* An iteration of the flood loop on a pixel already visited only removes the
\* point from the queue: the pixel is not tested and not expanded again.  An
\* iteration on a pixel not yet visited marks it visited.
floodOnce ==
  (fill.pc = "loop" /\ fill'.pc = "loop") =>
    LET pt == Head(fill.st.queue)
        idx == pt.y * fill.width + pt.x
    IN  IF idx \in fill.st.visited
        THEN fill'.st = [fill.st EXCEPT !.queue = Tail(@)]
        ELSE fill'.st.visited = fill.st.visited \cup {idx}

\* C28: the flood fill terminates on every buffer of at least 1x1 pixels,
\* those one pixel wide or high, whose border pixels are queued several
\* times, included; every pixel is tested and expanded at most once.
C28_FloodTerminates == <>(fill.pc = "done") /\ [][floodOnce]_vars

\* The loop has ended on a buffer one pixel wide and three high, a pixel of
\* which was in the starting queue twice; all its pixels were tested and
\* expanded (so each was queued again as a neighbour).
C28_Witness ==
  /\ fill.pc = "done"
  /\ fill.width = 1
  /\ fill.height = 3
  /\ \E idx \in 0..2 :
       Cardinality({ k \in 1..Len(initialQueue(1, 3)) :
                       initialQueue(1, 3)[k].y = idx }) >= 2
  /\ fill.st.visited = {0, 1, 2}
  /\ fill.st.transparentPixels = {0, 1, 2}
  /\ fill.st.queue = <<>>

-----------------------------------------------------------------------------
(* The processing indicator and the settling of the shell *)

\* C29: isProcessing is true in every state in which a run is scheduled (the
\* debounce timer is pending) or executing, and false only when there is
\* none; in particular the completion of an older run does not clear it while
\* a newer run is pending.
C29_IndicatorCoversRuns ==
  (timer \/ inflight # <<>>) => isProcessing

\* The shell without the edit workflow: uploads, changes of the settings, the
\* timer and the completions of runs.
NextSettle ==
  \/ \E img \in ShellImages : Upload(img)
  \/ \E v \in MaxBeadsChoices : SetMaxBeads(v)
  \/ \E v \in BeadSizeChoices : SetBeadSize(v)
  \/ \E name \in PaletteNames : SetSelectedPalette(name)
  \/ SetShowGrid
  \/ SetDithering
  \/ SetRemoveBackground
  \/ \E v \in ThresholdChoices : SetBackgroundThreshold(v)
  \/ TimerFires
  \/ \E i \in 1..Len(inflight) : RunCompletes(i)

\* A pending timer fires after its 300 ms, and an Image that was given a src
\* gets its load or its error event.
SpecSettle ==
  /\ Init
  /\ [][NextSettle]_vars
  /\ WF_vars(TimerFires)
  /\ WF_vars(\E i \in 1..Len(inflight) : RunCompletes(i))

\* The bitmap, the grid and the counts on show are those of processImage on
\* the image and the settings selected now.
showsLatest ==
  LET result == runResult(currentRun, TRUE)
  IN  /\ beadPattern = result.patternDataUrl
      /\ beadColors = result.colorGrid
      /\ colorCounts = countColors(result.colorGrid)

\* C30: once an image is loaded and the settings stop changing, eventually
\* isProcessing is false for good and, if the run scheduled last resolved,
\* the bitmap, the grid and the counts on show are those processImage gives
\* for the latest settings, whatever the order of timer firings and run
\* completions.
C30_SettlesOnLatest ==
  <>[](originalImage # NoImage
         => (~isProcessing /\ (newest.outcome = "resolved" => showsLatest)))
====
